---- MODULE Spec2Model ----
(***************************************************************************)
(* FileFlow: rule-based renaming of tracked files.                         *)
(*                                                                         *)
(* The module models the rule classes of src/src/rules.py (identical to    *)
(* the copies in src/copy_script.py), the naming engine and the commit     *)
(* handler of FileManagerApp (src/copy_script.py), the REST entry points   *)
(* of src/src/api.py, the rules panel, the settings file and its import,   *)
(* and the discovery of files (src/src/file_watcher.py, add_tracked_file), *)
(* also step by step on the watcher's timer threads.                       *)
(*                                                                         *)
(* Python strings are sequences of one-character strings, so that          *)
(* `tag in pattern` and str.replace are computed as Python computes them.  *)
(***************************************************************************)
EXTENDS Integers, Sequences, FiniteSets, TLC

VARIABLES
    \* ---- FileManagerApp (specification Spec) ----
    rules,              \* self.rules: the rule objects, in order
    naming_pattern,     \* self.naming_pattern
    tracked_files,      \* self.tracked_files: paths, in order
    dest_folder,        \* self.dest_folder: "", "missing" (no such folder), "dir"
    copy_rename_btn,    \* state of the Copy & Rename button widget
    latest_rename_info, \* self.latest_rename_info
    status,             \* the last show_status message
    stack,              \* copy_and_rename calls in flight on the UI thread,
                        \* innermost last (a modal dialog runs a nested event loop)
    after_queue,        \* root.after(0, copy_and_rename) callbacks not yet run
    disk,               \* source paths that exist on disk
    dest,               \* destination folder: entry name -> "old" (there at
                        \* start) or "new" (written by a copy)
    commit_log,         \* history: generate_filename calls of the latest pass
    passes,             \* history: commit passes started so far
    pass_start,         \* history: rules and previews when the latest pass began
    cancelled,          \* history: the latest collision dialog was cancelled
                        \* and no pass has begun since
    \* ---- one rule object driven directly (specification SpecRule) ----
    rule,            \* the rule object under test
    outputs,         \* values returned by get_value since construction/reset
    last_op,         \* the method that ran last on `rule`
    \* ---- file discovery (specification SpecTrack) ----
    file_formats,    \* self.file_formats: the format filter, a string
    last_file_time,  \* self.last_file_time: the baseline of start_tracking
    observer,        \* self.observer: TRUE while the watcher runs
    mtime,           \* os.path.getmtime of every source path
    now,             \* time.time()
    notified,        \* history: the latest path handed to add_tracked_file,
                     \* with the tracked list before the call
    \* ---- watcher timer threads (specification SpecThreads) ----
    timers           \* the threading.Timer threads of FileWatcher.on_created:
                     \* where each one is in add_tracked_file, and its path

rvars == <<rule, outputs, last_op>>

\* what add_tracked_file leaves alone of the tracking session
tcfg == <<file_formats, last_file_time, observer, mtime, now, timers>>

tvars == <<file_formats, last_file_time, observer, mtime, now, notified,
           timers>>

avars == <<rules, naming_pattern, tracked_files, dest_folder, copy_rename_btn,
           latest_rename_info, status, stack, after_queue, disk,
           dest, commit_log, passes, pass_start>>

avars_but_queue == <<rules, naming_pattern, tracked_files, dest_folder,
                     copy_rename_btn, latest_rename_info, status, stack,
                     disk, dest, commit_log, passes, pass_start>>

vars == <<rules, naming_pattern, tracked_files, dest_folder, copy_rename_btn,
          latest_rename_info, status, stack, after_queue, disk,
          dest, commit_log, passes, pass_start, rule, outputs, last_op,
          file_formats, last_file_time, observer, mtime, now, notified,
          timers, cancelled>>

-----------------------------------------------------------------------------
(* Bounds of the model *)

MaxCalls == 6      \* get_value / increment_batch calls on the rule under test
MaxStep == 3       \* largest step drawn for the rule under test
MaxStart == 1      \* start_value is drawn from 0..MaxStart
MaxInc == 3        \* increment is drawn from -1..MaxInc
MaxFiles == 3      \* tracked files at a time
MaxPasses == 2     \* commit requests that get past the guards
MaxVanished == 1   \* source files deleted from disk

-----------------------------------------------------------------------------
(* Python values *)

\* Python's None, for max_value; a set maximum m is <<m>>
None == <<>>

Digits == <<"0", "1", "2", "3", "4", "5", "6", "7", "8", "9">>

RECURSIVE NatToStr(_)
NatToStr(n) ==
    IF n < 10 THEN <<Digits[n + 1]>>
    ELSE NatToStr(n \div 10) \o <<Digits[(n % 10) + 1]>>

\* str(n) for a Python int
str(n) == IF n < 0 THEN <<"-">> \o NatToStr(-n) ELSE NatToStr(n)

\* `t in s` for Python strings, t non-empty
Contains(s, t) ==
    \E i \in 1..(Len(s) - Len(t) + 1) : SubSeq(s, i, i + Len(t) - 1) = t

\* a replace that stops after the first occurrence (s.replace(old, new, 1))
replace_first(s, old, new) ==
    LET I == {i \in 1..(Len(s) - Len(old) + 1) :
                 SubSeq(s, i, i + Len(old) - 1) = old}
    IN  IF I = {} THEN s
        ELSE LET i == CHOOSE i \in I : \A k \in I : i <= k IN
             SubSeq(s, 1, i - 1) \o new \o SubSeq(s, i + Len(old), Len(s))

\* s.replace(old, new): leftmost, non-overlapping occurrences, old non-empty
RECURSIVE replace(_, _, _)
replace(s, old, new) ==
    IF Len(s) < Len(old) THEN s
    ELSE IF SubSeq(s, 1, Len(old)) = old
         THEN new \o replace(SubSeq(s, Len(old) + 1, Len(s)), old, new)
         ELSE <<Head(s)>> \o replace(Tail(s), old, new)

-----------------------------------------------------------------------------
(* rules.py: the rule classes *)

\* CounterRule.__init__
CounterRule(tag_name, start_value, increment, step, max_value) ==
    [type |-> "counter", tag_name |-> tag_name, start_value |-> start_value,
     increment |-> increment, step |-> step, max_value |-> max_value,
     current_value |-> start_value, operation_count |-> 0]

\* ListRule.__init__
ListRule(tag_name, values, step) ==
    [type |-> "list", tag_name |-> tag_name, values |-> values, step |-> step,
     current_index |-> 0, operation_count |-> 0]

\* BatchRule.__init__
BatchRule(tag_name, start_value, increment, step, max_value) ==
    [type |-> "batch", tag_name |-> tag_name, start_value |-> start_value,
     increment |-> increment, step |-> step, max_value |-> max_value,
     current_value |-> start_value, batch_count |-> 0]

\* "Handle max value wrapping": the value after adding the increment
WrapModulo(r, nv) ==
    IF r.max_value # None /\ nv > r.max_value[1]
    THEN r.start_value + (nv - r.max_value[1] - 1)
    ELSE nv

\* a sum that is never put back to start_value
WrapNever(r, nv) == nv

Wrap(r, nv) ==
    IF r.max_value # None /\ nv > r.max_value[1] THEN r.start_value ELSE nv

\* the step threshold: does the count-th operation advance the cursor?
StepReachedAlways(count, step) == TRUE

StepReached(count, step) == count % step = 0

\* CounterRule.get_value: the returned string and the rule afterwards
CounterRule_get_value(r) ==
    LET count == r.operation_count + 1 IN
    [value |-> str(r.current_value),
     rule  |-> [r EXCEPT !.operation_count = count,
                         !.current_value =
                             IF StepReached(count, r.step)
                             THEN Wrap(r, r.current_value + r.increment)
                             ELSE r.current_value]]

CounterRule_reset(r) ==
    [r EXCEPT !.current_value = r.start_value, !.operation_count = 0]

\* values[current_index % len(values)] (Python lists are 0-based)
ListValueFirst(r) == r.values[1]

ListValue(r) == r.values[(r.current_index % Len(r.values)) + 1]

\* ListRule.get_value
ListRule_get_value(r) ==
    IF r.values = <<>> THEN [value |-> <<>>, rule |-> r]
    ELSE LET count == r.operation_count + 1 IN
         [value |-> ListValue(r),
          rule  |-> [r EXCEPT !.operation_count = count,
                              !.current_index =
                                  IF StepReached(count, r.step)
                                  THEN r.current_index + 1
                                  ELSE r.current_index]]

ListRule_reset(r) == [r EXCEPT !.current_index = 0, !.operation_count = 0]

\* BatchRule.get_value: no state change
BatchRule_get_value_advancing(r) ==
    [value |-> str(r.current_value),
     rule  |-> [r EXCEPT !.current_value = r.current_value + r.increment]]

BatchRule_get_value(r) == [value |-> str(r.current_value), rule |-> r]

\* BatchRule.reset: pass
BatchRule_reset_to_start(r) ==
    [r EXCEPT !.current_value = r.start_value, !.batch_count = 0]

BatchRule_reset(r) == r

\* an increment_batch that advances the value on every call
BatchRule_increment_batch_every_call(r) ==
    [r EXCEPT !.batch_count = r.batch_count + 1,
              !.current_value = Wrap(r, r.current_value + r.increment)]

\* BatchRule.increment_batch
BatchRule_increment_batch(r) ==
    LET count == r.batch_count + 1 IN
    [r EXCEPT !.batch_count = count,
              !.current_value =
                  IF StepReached(count, r.step)
                  THEN Wrap(r, r.current_value + r.increment)
                  ELSE r.current_value]

\* rule.get_value(file_index, batch_count): dynamic dispatch on the class;
\* no class reads either argument
get_value(r) ==
    CASE r.type = "counter" -> CounterRule_get_value(r)
      [] r.type = "list"    -> ListRule_get_value(r)
      [] r.type = "batch"   -> BatchRule_get_value(r)

\* rule.reset()
reset(r) ==
    CASE r.type = "counter" -> CounterRule_reset(r)
      [] r.type = "list"    -> ListRule_reset(r)
      [] r.type = "batch"   -> BatchRule_reset(r)

-----------------------------------------------------------------------------
(* copy_script.py: paths *)

Max(S) == CHOOSE x \in S : \A y \in S : y <= x

\* s.rfind(ch) + 1; 0 when ch does not occur
LastIndexOf(s, ch) ==
    LET I == {i \in 1..Len(s) : s[i] = ch} IN IF I = {} THEN 0 ELSE Max(I)

\* os.path.basename (paths use "/")
basename(path) == SubSeq(path, LastIndexOf(path, "/") + 1, Len(path))

\* os.path.splitext: <<root, ext>>; the extension starts at the last dot of
\* the last component, unless only dots precede it there
splitext(path) ==
    LET sep == LastIndexOf(path, "/")
        dot == LastIndexOf(path, ".")
    IN  IF dot > sep /\ \E k \in (sep + 1)..(dot - 1) : path[k] # "."
        THEN <<SubSeq(path, 1, dot - 1), SubSeq(path, dot, Len(path))>>
        ELSE <<path, <<>>>>

-----------------------------------------------------------------------------
(* copy_script.py: the naming engine *)

\* f"{{{rule.tag_name}}}"
Tag(tag_name) == <<"{">> \o tag_name \o <<"}">>

\* generate_filename, from rule j on: the name, the rules afterwards and the
\* get_value calls made (rule index, class, returned value)
RECURSIVE GenerateFrom(_, _, _, _)
GenerateFrom(rs, j, pattern, calls) ==
    IF j > Len(rs) THEN [name |-> pattern, rules |-> rs, calls |-> calls]
    ELSE IF Contains(pattern, Tag(rs[j].tag_name))
         THEN LET g == get_value(rs[j]) IN
              GenerateFrom([rs EXCEPT ![j] = g.rule], j + 1,
                           replace(pattern, Tag(rs[j].tag_name), g.value),
                           Append(calls, [index |-> j, type |-> rs[j].type,
                                          value |-> g.value]))
         ELSE GenerateFrom(rs, j + 1, pattern, calls)

\* generate_filename that drops what follows the first brace left in the name
generate_filename_truncating(rs, pattern) ==
    LET g == GenerateFrom(rs, 1, pattern, <<>>)
        I == {i \in 1..Len(g.name) : g.name[i] = "{"}
    IN  IF I = {} THEN g
        ELSE [g EXCEPT !.name =
                 SubSeq(g.name, 1, (CHOOSE i \in I : \A k \in I : i <= k) - 1)]

\* a generate_filename that reads the rules' values without advancing them
generate_filename_without_advance(rs, pattern) ==
    [GenerateFrom(rs, 1, pattern, <<>>) EXCEPT !.rules = rs]

\* FileManagerApp.generate_filename(file_index, total_files)
generate_filename(rs, pattern) == GenerateFrom(rs, 1, pattern, <<>>)

\* _create_temp_rule_copy: the temporary rule, and whether it is the live
\* rule object itself rather than a new object
create_temp_rule_copy_shared(r) == [same_object |-> TRUE, rule |-> r]

create_temp_rule_copy(r) ==
    CASE r.type = "counter" ->
            [same_object |-> FALSE,
             rule |-> reset(CounterRule(r.tag_name, r.start_value, r.increment,
                                        r.step, r.max_value))]
      [] r.type = "list" ->
            [same_object |-> FALSE,
             rule |-> reset(ListRule(r.tag_name, r.values, r.step))]
      [] r.type = "batch" ->
            [same_object |-> FALSE,
             rule |-> reset([BatchRule(r.tag_name, r.start_value, r.increment,
                                       r.step, r.max_value)
                                EXCEPT !.current_value = r.current_value,
                                       !.batch_count = r.batch_count])]
      [] OTHER -> [same_object |-> TRUE, rule |-> r]

\* for j in range(n): value = temp_rule.get_value(j, total_files); n >= 1
RECURSIVE Replay(_, _)
Replay(r, n) ==
    IF n = 1 THEN get_value(r) ELSE Replay(get_value(r).rule, n - 1)

\* generate_filename_preview, from rule j on: the name, and the live rules
\* afterwards
RECURSIVE PreviewFrom(_, _, _, _)
PreviewFrom(rs, j, pattern, file_index) ==
    IF j > Len(rs) THEN [name |-> pattern, rules |-> rs]
    ELSE IF Contains(pattern, Tag(rs[j].tag_name))
         THEN LET t == create_temp_rule_copy(rs[j])
                  g == Replay(t.rule, file_index + 1)
              IN  PreviewFrom(IF t.same_object THEN [rs EXCEPT ![j] = g.rule]
                              ELSE rs,
                              j + 1,
                              replace(pattern, Tag(rs[j].tag_name), g.value),
                              file_index)
         ELSE PreviewFrom(rs, j + 1, pattern, file_index)

\* FileManagerApp.generate_filename_preview(file_index, total_files)
generate_filename_preview(rs, pattern, file_index) ==
    PreviewFrom(rs, 1, pattern, file_index)

\* preview_name + file_ext for the files from index i (0-based) on, as the
\* display, the conflict detectors and the API compute them
RECURSIVE PreviewFullNamesFrom(_, _, _, _, _)
PreviewFullNamesFrom(rs, pattern, files, i, names) ==
    IF i >= Len(files) THEN [names |-> names, rules |-> rs]
    ELSE LET pv == generate_filename_preview(rs, pattern, i) IN
         PreviewFullNamesFrom(pv.rules, pattern, files, i + 1,
             Append(names, pv.name \o splitext(files[i + 1])[2]))

PreviewFullNames(rs, pattern, files) ==
    PreviewFullNamesFrom(rs, pattern, files, 0, <<>>)

\* has_any_conflicts: some preview full name repeats an earlier one
has_any_conflicts(names) ==
    \E i, k \in 1..Len(names) : i < k /\ names[i] = names[k]

\* a duplicate test that does not leave out the file itself
has_duplicate_preview_name_with_self(names, current_index, preview_full_name) ==
    \E i \in 1..Len(names) : names[i] = preview_full_name

\* has_duplicate_preview_name(current_index, preview_full_name)
has_duplicate_preview_name(names, current_index, preview_full_name) ==
    \E i \in 1..Len(names) : i # current_index /\ names[i] = preview_full_name

\* preview_exists_in_destination(preview_full_name)
preview_exists_in_destination(folder, entries, preview_full_name) ==
    folder = "dir" /\ preview_full_name \in entries

\* has_existing_files_in_destination
has_existing_files_in_destination(folder, entries, names) ==
    \E i \in 1..Len(names) :
        preview_exists_in_destination(folder, entries, names[i])

\* re.findall(r'\{([^}]+)\}', pattern)
RECURSIVE findall_tags(_)
findall_tags(s) ==
    IF s = <<>> THEN <<>>
    ELSE IF Head(s) # "{" THEN findall_tags(Tail(s))
    ELSE LET t == Tail(s)
             C == {i \in 1..Len(t) : t[i] = "}"}
         IN  IF C = {} THEN <<>>
             ELSE LET c == CHOOSE i \in C : \A k \in C : i <= k IN
                  IF c = 1 THEN findall_tags(t)
                  ELSE <<SubSeq(t, 1, c - 1)>>
                           \o findall_tags(SubSeq(t, c + 1, Len(t)))

\* a check for missing rules that reports none
get_missing_rule_tags_none(pattern, rs) == <<>>

\* get_missing_rule_tags
get_missing_rule_tags(pattern, rs) ==
    SelectSeq(findall_tags(pattern),
              LAMBDA tag : \A j \in 1..Len(rs) : rs[j].tag_name # tag)

\* update_button_states: the state of the Copy & Rename button
update_button_states(files, folder, names) ==
    IF Len(files) > 0 /\ folder = "dir" /\ ~has_any_conflicts(names)
    THEN "normal" ELSE "disabled"

-----------------------------------------------------------------------------
(* copy_script.py: the format filter *)

UpperCase == <<"A", "B", "C", "D", "E", "F", "G", "H", "I", "J", "K", "L", "M",
               "N", "O", "P", "Q", "R", "S", "T", "U", "V", "W", "X", "Y", "Z">>
LowerCase == <<"a", "b", "c", "d", "e", "f", "g", "h", "i", "j", "k", "l", "m",
               "n", "o", "p", "q", "r", "s", "t", "u", "v", "w", "x", "y", "z">>

\* str.lower()
lower(s) ==
    [i \in 1..Len(s) |->
        IF \E k \in 1..Len(UpperCase) : UpperCase[k] = s[i]
        THEN LowerCase[CHOOSE k \in 1..Len(UpperCase) : UpperCase[k] = s[i]]
        ELSE s[i]]

\* str.strip(), for blanks
RECURSIVE strip(_)
strip(s) ==
    IF s = <<>> THEN s
    ELSE IF Head(s) = " " THEN strip(Tail(s))
    ELSE IF s[Len(s)] = " " THEN strip(SubSeq(s, 1, Len(s) - 1))
    ELSE s

\* str.split(sep), sep one character
RECURSIVE split(_, _)
split(s, sep) ==
    LET I == {i \in 1..Len(s) : s[i] = sep} IN
    IF I = {} THEN <<s>>
    ELSE LET c == CHOOSE i \in I : \A k \in I : i <= k IN
         <<SubSeq(s, 1, c - 1)>> \o split(SubSeq(s, c + 1, Len(s)), sep)

\* str.startswith(prefix)
startswith(s, prefix) ==
    Len(s) >= Len(prefix) /\ SubSeq(s, 1, Len(prefix)) = prefix

\* should_track_file(file_path), for the filter string formats
should_track_file(formats_string, file_path) ==
    LET file_name == basename(file_path)
        parts == split(formats_string, ";")
        formats == SelectSeq([i \in 1..Len(parts) |-> strip(parts[i])],
                             LAMBDA f : f # <<>>)
        file_ext == lower(splitext(file_name)[2])
    IN  IF formats = <<>> \/ \E i \in 1..Len(formats) : formats[i] = <<"*">>
        THEN TRUE
        ELSE \E i \in 1..Len(formats) :
                 LET fmt == formats[i] IN
                 IF startswith(fmt, <<".">>) THEN file_ext = lower(fmt)
                 ELSE IF startswith(fmt, <<"*", ".">>)
                      THEN file_ext = lower(Tail(fmt))
                      ELSE fmt = splitext(file_name)[1]

-----------------------------------------------------------------------------
(* copy_script.py: FileManagerApp state and handlers *)

\* the source files of the model, in the order in which they are created:
\* /a.j, /b.j, /c (no extension), /d.j, ...
Letters == <<"a", "b", "c", "d", "e", "f">>
PathSeq == [k \in 1..MaxFiles |->
               <<"/", Letters[k]>> \o (IF k % 3 = 0 THEN <<>> ELSE <<".", "j">>)]
Paths == {PathSeq[k] : k \in 1..Len(PathSeq)}

TagCounter == <<"c", "o", "u", "n", "t", "e", "r">>
TagC == <<"c">>
TagB == <<"b">>
TagL == <<"l">>
TagU == <<"u">>

\* settings the application can be started with (load_settings): the naming
\* pattern and the rules
Configs ==
    { \* "file_{counter}", the default pattern, with one counter from 1
      [pattern |-> <<"f", "i", "l", "e", "_">> \o Tag(TagCounter),
       rules   |-> <<CounterRule(TagCounter, 1, 1, 1, None)>>],
      \* "{b}.{l}": a batch rule, a list rule with step 2, an unused counter
      [pattern |-> Tag(TagB) \o <<".">> \o Tag(TagL),
       rules   |-> <<BatchRule(TagB, 0, 1, 1, <<1>>),
                     ListRule(TagL, <<<<"x">>, <<"y">>>>, 2),
                     CounterRule(TagU, 0, 1, 1, None)>>],
      \* "{c}{c}{m}": a wrapping counter used twice, and a tag with no rule
      [pattern |-> Tag(TagC) \o Tag(TagC) \o Tag(<<"m">>),
       rules   |-> <<CounterRule(TagC, 0, 3, 2, <<7>>),
                     BatchRule(TagB, 2, -1, 2, None)>>],
      \* "{l}": a list whose first value is the placeholder of the counter
      [pattern |-> Tag(TagL),
       rules   |-> <<ListRule(TagL, <<Tag(TagC), <<"x">>>>, 1),
                     CounterRule(TagC, 0, 1, 1, None)>>] }

EmptyDest == [n \in {} |-> "old"]

\* no watcher timer thread is alive
NoTimers == <<>>

\* a destination that already holds the names the first and the third
\* source file get under the settings cfg
ExistingEntries(cfg) ==
    LET names == PreviewFullNames(cfg.rules, cfg.pattern, PathSeq).names IN
    [n \in {names[1], names[Len(names)]} |-> "old"]

NoFrame == [rules |-> <<>>, previews |-> <<>>, done |-> FALSE, fresh |-> FALSE]

Status(kind, copied, skipped) ==
    [kind |-> kind, copied |-> copied, skipped |-> skipped]

\* FileManagerApp.__init__
Init ==
    /\ \E cfg \in Configs :
          /\ naming_pattern = cfg.pattern
          /\ rules = cfg.rules
          \* the destination is an existing folder, empty or holding the
          \* names of the first and the third file; or no folder is
          \* selected; or the selected folder is gone
          /\ \/ /\ dest_folder = "dir"
                /\ dest \in {EmptyDest, ExistingEntries(cfg)}
             \/ /\ dest_folder \in {"", "missing"}
                /\ dest = EmptyDest
    /\ tracked_files = <<>>
    /\ copy_rename_btn = "disabled"
    /\ latest_rename_info = None
    /\ status = Status("ready", 0, 0)
    /\ stack = <<>>
    /\ after_queue = 0
    /\ disk = Paths
    /\ commit_log = <<>>
    /\ passes = 0
    /\ pass_start = NoFrame
    /\ rule = CounterRule(TagC, 0, 1, 1, None)
    /\ outputs = <<>>
    /\ last_op = "init"
    \* tracking has started on an empty source folder; every file of the
    \* model is created after that and passes the default filter "*"
    /\ file_formats = <<"*">>
    /\ last_file_time = 0
    /\ observer = TRUE
    /\ mtime = [p \in Paths |-> 1]
    /\ now = 1
    /\ notified = None
    /\ timers = NoTimers
    /\ cancelled = FALSE

Top == stack[Len(stack)]
Base == SubSeq(stack, 1, Len(stack) - 1)

\* the UI thread is in an event loop: the main loop, or the nested loop of
\* a modal dialog (messagebox.askyesno, dialog.wait_window)
InDialog == stack # <<>> /\ Top.pc \in {"askyesno", "conflict_dialog"}
EventLoopRunning == stack = <<>> \/ InDialog
\* the main window takes user input: no modal dialog holds the grab
MainWindowActive == stack = <<>>

Tracked == {tracked_files[i] : i \in 1..Len(tracked_files)}

\* the model follows the application until MaxPasses commit passes are over
Running == passes < MaxPasses \/ stack # <<>> \/ after_queue > 0

\* update_files_display: the previews are recomputed for the display and
\* the button state follows them
UpdateFilesDisplayTo(rs, pattern, files) ==
    LET pv == PreviewFullNames(rs, pattern, files) IN
    /\ rules' = pv.rules
    /\ copy_rename_btn' = update_button_states(files, dest_folder, pv.names)

\* a baseline test that lets through a file as old as the baseline
created_after_or_at(file_time, baseline) == file_time >= baseline

\* "Check if file was created after we started tracking": the file passes
\* unless file_time <= self.last_file_time
created_after(file_time, baseline) == ~(file_time <= baseline)

\* add_tracked_file(file_path), on a watcher timer thread: the format
\* filter, the baseline of the tracking session, the duplicate check
add_tracked_file(file_path) ==
    /\ file_path \in disk
    /\ IF /\ should_track_file(file_formats, file_path)
          /\ created_after(mtime[file_path], last_file_time)
          /\ file_path \notin Tracked
       THEN /\ tracked_files' = Append(tracked_files, file_path)
            /\ IF EventLoopRunning
               THEN UpdateFilesDisplayTo(rules, naming_pattern, tracked_files')
               ELSE UNCHANGED <<rules, copy_rename_btn>>
       ELSE UNCHANGED <<tracked_files, rules, copy_rename_btn>>
    /\ UNCHANGED <<naming_pattern, dest_folder, latest_rename_info, status,
                   stack, after_queue, disk, dest, commit_log,
                   passes, pass_start, rvars, tcfg, cancelled>>

\* FileWatcher.on_created -> _process_new_file -> add_tracked_file: the
\* watcher reports the source files in the order of their creation
on_created(file_path) ==
    /\ Running
    /\ file_path \notin Tracked
    /\ \A k \in 1..Len(PathSeq) :
           PathSeq[k] = file_path => \A m \in 1..(k - 1) : PathSeq[m] \in Tracked
    /\ Len(tracked_files) < MaxFiles
    /\ add_tracked_file(file_path)
    /\ UNCHANGED notified

\* update_files_display, on the UI thread (a view switch, a folder edit)
update_files_display ==
    /\ Running
    /\ EventLoopRunning
    /\ UpdateFilesDisplayTo(rules, naming_pattern, tracked_files)
    /\ UNCHANGED <<naming_pattern, tracked_files, dest_folder,
                   latest_rename_info, status, stack, after_queue, disk, dest, commit_log, passes, pass_start, rvars, tvars, cancelled>>

\* remove_file_at_index(index)
remove_file_at_index(index) ==
    /\ Running
    /\ MainWindowActive
    /\ index \in 0..(Len(tracked_files) - 1)
    /\ tracked_files' = SubSeq(tracked_files, 1, index)
                           \o SubSeq(tracked_files, index + 2, Len(tracked_files))
    /\ UpdateFilesDisplayTo(rules, naming_pattern, tracked_files')
    /\ UNCHANGED <<naming_pattern, dest_folder, latest_rename_info, status,
                   stack, after_queue, disk, dest, commit_log,
                   passes, pass_start, rvars, tvars, cancelled>>

\* move_file_up(index): the rows are rebuilt, the buttons are not updated
move_file_up(index) ==
    /\ Running
    /\ MainWindowActive
    /\ index \in 1..(Len(tracked_files) - 1)
    /\ tracked_files' = [tracked_files EXCEPT
                            ![index + 1] = tracked_files[index],
                            ![index] = tracked_files[index + 1]]
    /\ rules' = PreviewFullNames(rules, naming_pattern, tracked_files').rules
    /\ UNCHANGED <<naming_pattern, dest_folder, copy_rename_btn,
                   latest_rename_info, status, stack, after_queue, disk, dest, commit_log, passes, pass_start, rvars, tvars, cancelled>>

\* a tracked source file is deleted from disk. A pass looks at the disk
\* only when it reaches the file, so a deletion during a commit is the same
\* to it as one before the commit.
Vanish(path) ==
    /\ Running
    /\ stack = <<>>
    /\ path \in disk
    /\ path \in Tracked
    /\ Cardinality(Paths \ disk) < MaxVanished
    /\ disk' = disk \ {path}
    /\ UNCHANGED <<rules, naming_pattern, tracked_files, dest_folder,
                   copy_rename_btn, latest_rename_info, status, stack,
                   after_queue, dest, commit_log, passes,
                   pass_start, rvars, tvars, cancelled>>

\* update_batch_current(index, value)
update_batch_current(index, value) ==
    /\ Running
    /\ MainWindowActive
    /\ index \in 1..Len(rules)
    /\ rules[index].type = "batch"
    /\ UpdateFilesDisplayTo([rules EXCEPT ![index].current_value = value],
                            naming_pattern, tracked_files)
    /\ UNCHANGED <<naming_pattern, tracked_files, dest_folder,
                   latest_rename_info, status, stack, after_queue, disk, dest, commit_log, passes, pass_start, rvars, tvars, cancelled>>

\* list.index(x): the first position of x (1-based here)
list_index(list, x) ==
    CHOOSE i \in 1..Len(list) :
        list[i] = x /\ \A k \in 1..(i - 1) : list[k] # x

\* GET /api/tracking?count=n: the entry of the 'files' list for the file
\* at position i; the preview is computed for original_index, the first
\* position of the path in the tracked list
ApiTrackingEntry(names, i) ==
    LET original_index == list_index(tracked_files, tracked_files[i])
        new_name == names[original_index]
    IN  [original_path |-> tracked_files[i],
         new_name |-> new_name,
         state |-> IF has_duplicate_preview_name(names, original_index,
                                                 new_name)
                   THEN "duplicate"
                   ELSE IF preview_exists_in_destination(
                               dest_folder, DOMAIN dest, new_name)
                        THEN "exists" ELSE "normal"]

\* GET /api/tracking?count=n: the 'files' list of the response, and the
\* live rules afterwards
api_tracking_files(count) ==
    LET pv == PreviewFullNames(rules, naming_pattern, tracked_files)
        first == IF Len(tracked_files) > count
                 THEN Len(tracked_files) - count + 1 ELSE 1
    IN  [files |-> [k \in 1..(Len(tracked_files) - first + 1) |->
                       ApiTrackingEntry(pv.names, first + k - 1)],
         rules |-> pv.rules]

\* GET /api/tracking?count=n is served, on the API thread
api_tracking_get(count) ==
    /\ Running
    /\ tracked_files # <<>>
    /\ rules' = api_tracking_files(count).rules
    /\ UNCHANGED <<naming_pattern, tracked_files, dest_folder,
                   copy_rename_btn, latest_rename_info, status, stack,
                   after_queue, disk, dest, commit_log, passes,
                   pass_start, rvars, tvars, cancelled>>

-----------------------------------------------------------------------------
(* copy_script.py: copy_and_rename *)

Frame(pc, action) ==
    [pc |-> pc, existing_files_action |-> action, i |-> 0,
     copied_count |-> 0, skipped_count |-> 0]

\* a pass that begins without resetting any rule
ResetAllSkipped(rs) == rs

\* "Reset all rules for new batch"
ResetAll(rs) == [j \in 1..Len(rs) |-> reset(rs[j])]

\* "Increment batch counters"
IncrementBatchCountersInPattern(rs, pattern) ==
    [j \in 1..Len(rs) |->
        IF rs[j].type = "batch" /\ Contains(pattern, Tag(rs[j].tag_name))
        THEN BatchRule_increment_batch(rs[j]) ELSE rs[j]]

IncrementBatchCounters(rs, pattern) ==
    [j \in 1..Len(rs) |->
        IF rs[j].type = "batch" THEN BatchRule_increment_batch(rs[j])
        ELSE rs[j]]

\* the try block is entered: the rules are reset and the loop starts
BeginPass(base, action) ==
    /\ rules' = ResetAll(rules)
    /\ stack' = Append(base, Frame("copying", action))
    /\ commit_log' = <<>>
    /\ passes' = passes + 1
    /\ pass_start' =
          [rules |-> rules,
           previews |-> [k \in 1..Len(tracked_files) |->
               generate_filename_preview(rules, naming_pattern, k - 1).name],
           done |-> FALSE,
           fresh |-> passes = 0]
    /\ cancelled' = FALSE
    /\ UNCHANGED <<naming_pattern, tracked_files, dest_folder,
                   copy_rename_btn, latest_rename_info, status, disk, dest,
                   rvars, tvars>>

\* "Check for existing files and ask for action"
CheckExistingFiles(base) ==
    LET pv == PreviewFullNames(rules, naming_pattern, tracked_files) IN
    IF has_existing_files_in_destination(dest_folder, DOMAIN dest, pv.names)
    THEN /\ stack' = Append(base, Frame("conflict_dialog", "none"))
         /\ rules' = pv.rules
         /\ UNCHANGED <<naming_pattern, tracked_files, dest_folder,
                        copy_rename_btn, latest_rename_info, status,
                        disk, dest, commit_log, passes,
                        pass_start, rvars, tvars, cancelled>>
    ELSE BeginPass(base, "none")

\* the guards at the head of copy_and_rename without the os.path.exists test
commit_guard_without_exists(files, folder) ==
    IF files = <<>> THEN "no_files"
    ELSE IF folder = "" THEN "select_dest"
    ELSE "ok"

\* the guards at the head of copy_and_rename: the status of the first one
\* that fails, "ok" when none does
commit_guard(files, folder) ==
    IF files = <<>> THEN "no_files"
    ELSE IF folder = "" THEN "select_dest"
    ELSE IF folder # "dir" THEN "dest_missing"
    ELSE "ok"

\* copy_and_rename, from its entry to its first dialog or into the loop;
\* base holds the calls already in flight
copy_and_rename(base) ==
    IF commit_guard(tracked_files, dest_folder) # "ok"
    THEN /\ status' = Status(commit_guard(tracked_files, dest_folder), 0, 0)
         /\ stack' = base
         /\ UNCHANGED <<rules, naming_pattern, tracked_files, dest_folder,
                        copy_rename_btn, latest_rename_info, disk,
                        dest, commit_log, passes, pass_start, rvars, tvars, cancelled>>
    ELSE IF get_missing_rule_tags(naming_pattern, rules) # <<>>
    THEN /\ stack' = Append(base, Frame("askyesno", "none"))
         /\ UNCHANGED <<rules, naming_pattern, tracked_files, dest_folder,
                        copy_rename_btn, latest_rename_info, status,
                        disk, dest, commit_log, passes,
                        pass_start, rvars, tvars, cancelled>>
    ELSE CheckExistingFiles(base)

\* the Copy & Rename Files button is pressed
click_copy_rename ==
    /\ MainWindowActive
    /\ copy_rename_btn = "normal"
    /\ passes + after_queue < MaxPasses
    /\ copy_and_rename(stack)
    /\ UNCHANGED after_queue

\* POST /api/copy_rename: root.after(0, self.app.copy_and_rename)
api_copy_rename ==
    /\ passes + Len(stack) + after_queue < MaxPasses
    /\ after_queue' = after_queue + 1
    /\ UNCHANGED <<avars_but_queue, rvars, tvars, cancelled>>

\* the event loop runs a scheduled copy_and_rename
run_after_callback ==
    /\ after_queue > 0
    /\ EventLoopRunning
    /\ after_queue' = after_queue - 1
    /\ copy_and_rename(stack)

\* messagebox.askyesno("Missing Rules Warning", ...) returns
answer_askyesno(yes) ==
    /\ stack # <<>>
    /\ Top.pc = "askyesno"
    /\ UNCHANGED after_queue
    /\ IF yes THEN CheckExistingFiles(Base)
       ELSE /\ stack' = Base
            /\ UNCHANGED <<rules, naming_pattern, tracked_files, dest_folder,
                           copy_rename_btn, latest_rename_info, status,
                           disk, dest, commit_log, passes,
                           pass_start, rvars, tvars, cancelled>>

\* a collision dialog whose Cancel is taken for a choice like the others
is_cancel_never(action) == FALSE

\* existing_files_action == "cancel" (the Cancel button, or the dialog closed)
is_cancel(action) == action = "cancel"

\* show_file_conflict_dialog returns the chosen action
answer_conflict_dialog(action) ==
    /\ stack # <<>>
    /\ Top.pc = "conflict_dialog"
    /\ UNCHANGED after_queue
    /\ IF ~is_cancel(action) THEN BeginPass(Base, action)
       ELSE /\ stack' = Base
            /\ cancelled' = TRUE
            /\ UNCHANGED <<rules, naming_pattern, tracked_files, dest_folder,
                           copy_rename_btn, latest_rename_info, status,
                           disk, dest, commit_log, passes,
                           pass_start, rvars, tvars>>

\* "Find a unique name by adding numbers": name_part_<counter><ext> for the
\* first counter from 1 whose name is not in the destination
RenameTarget(name, file_ext, entries) ==
    LET name_part == splitext(name)[1]
        Candidate(k) == name_part \o <<"_">> \o str(k) \o file_ext
        k0 == CHOOSE k \in 1..(Cardinality(entries) + 1) :
                  /\ Candidate(k) \notin entries
                  /\ \A m \in 1..(k - 1) : Candidate(m) \in entries
    IN  Candidate(k0)

\* a handler that goes on with the next file after a copy error
after_copy_error_continue(base, top) ==
    Append(base, [top EXCEPT !.i = @ + 1])

\* "except Exception as e": the exception leaves the loop and the try
\* block, and copy_and_rename returns after show_status
after_copy_error(base, top) == base

\* a loop that counts a vanished source file as skipped
after_missing_source_counted(top) ==
    [top EXCEPT !.i = @ + 1, !.skipped_count = @ + 1]

\* "if os.path.exists(file_path)" is false: the loop goes on to the next
\* file, and no count changes
after_missing_source(top) == [top EXCEPT !.i = @ + 1]

\* an ignore policy that skips nothing
skips_existing_never(action, exists) == FALSE

\* os.path.exists(dest_path) and existing_files_action == "ignore"
skips_existing(action, exists) == exists /\ action = "ignore"

\* one iteration of "for i, file_path in enumerate(self.tracked_files)";
\* copy_ok tells whether shutil.copy2 returns or raises
commit_step(copy_ok) ==
    /\ stack # <<>>
    /\ Top.pc = "copying"
    /\ Top.i < Len(tracked_files)
    /\ LET file_path == tracked_files[Top.i + 1]
           g == generate_filename(rules, naming_pattern)
           file_ext == splitext(file_path)[2]
           name == g.name \o file_ext
           exists == name \in DOMAIN dest
           dest_name == IF exists /\ Top.existing_files_action = "rename"
                        THEN RenameTarget(name, file_ext, DOMAIN dest)
                        ELSE name
       IN  IF file_path \notin disk
           THEN /\ copy_ok
                /\ stack' = Append(Base, after_missing_source(Top))
                /\ UNCHANGED <<rules, commit_log, dest, latest_rename_info,
                               status>>
           ELSE /\ rules' = g.rules
                /\ commit_log' = Append(commit_log,
                       [i |-> Top.i, name |-> g.name, calls |-> g.calls])
                /\ IF skips_existing(Top.existing_files_action, exists)
                   THEN /\ copy_ok
                        /\ stack' = Append(Base,
                               [Top EXCEPT !.i = @ + 1, !.skipped_count = @ + 1])
                        /\ UNCHANGED <<dest, latest_rename_info, status>>
                   ELSE IF copy_ok
                   THEN /\ dest' = (dest_name :> "new") @@ dest
                        /\ latest_rename_info' =
                               <<basename(file_path), dest_name>>
                        /\ stack' = Append(Base,
                               [Top EXCEPT !.i = @ + 1, !.copied_count = @ + 1])
                        /\ UNCHANGED status
                   ELSE \* except Exception: "Failed to copy files"
                        /\ status' = Status("failed", 0, 0)
                        /\ stack' = after_copy_error(Base, Top)
                        /\ UNCHANGED <<dest, latest_rename_info>>
    /\ UNCHANGED <<naming_pattern, tracked_files, dest_folder,
                   copy_rename_btn, after_queue, disk, passes,
                   pass_start, rvars, tvars, cancelled>>

\* the loop has ended: batch counters, clearing of the list, the status
commit_finish ==
    /\ stack # <<>>
    /\ Top.pc = "copying"
    /\ Top.i >= Len(tracked_files)
    /\ rules' = IncrementBatchCounters(rules, naming_pattern)
    /\ tracked_files' = <<>>
    /\ copy_rename_btn' = update_button_states(<<>>, dest_folder, <<>>)
    /\ status' = Status(IF Top.skipped_count > 0 THEN "copied_skipped"
                        ELSE "copied", Top.copied_count, Top.skipped_count)
    /\ stack' = Base
    /\ pass_start' = [NoFrame EXCEPT !.done = TRUE]
    /\ commit_log' = <<>>
    /\ UNCHANGED <<naming_pattern, dest_folder, latest_rename_info,
                   after_queue, disk, dest, passes, rvars, tvars, cancelled>>

Next ==
    \/ \E p \in Paths : on_created(p)
    \/ \E p \in Paths : Vanish(p)
    \/ \E j \in 1..Len(rules) : update_batch_current(j, 0)
    \/ \E n \in 1..MaxFiles : api_tracking_get(n)
    \/ click_copy_rename
    \/ api_copy_rename
    \/ run_after_callback
    \/ \E yes \in BOOLEAN : answer_askyesno(yes)
    \/ \E a \in {"overwrite", "rename", "ignore", "cancel"} :
           answer_conflict_dialog(a)
    \/ \E ok \in BOOLEAN : commit_step(ok)
    \/ commit_finish

Spec == Init /\ [][Next]_vars

-----------------------------------------------------------------------------
(* SpecRule: one rule object, constructed with any parameters of the      *)
(* bounded ranges and then driven by its own methods.                      *)

Steps == 1..MaxStep
Starts == 0..MaxStart
Incs == (-1)..MaxInc
Maxes == {None, <<2>>, <<7>>}
ValueLists == {<<>>, <<<<"a">>>>, <<<<"a">>, <<"b">>>>,
               <<<<"a">>, <<"b">>, <<"a">>, <<"c">>>>}

InitRule ==
    /\ rule \in
          {CounterRule(TagC, s, i, st, m) :
              s \in Starts, i \in Incs, st \in Steps, m \in Maxes}
          \cup {BatchRule(TagC, s, i, st, m) :
              s \in Starts, i \in Incs, st \in Steps, m \in Maxes}
          \cup {ListRule(TagC, v, st) : v \in ValueLists, st \in Steps}
    /\ outputs = <<>>
    /\ last_op = "init"
    /\ rules = <<>>
    /\ naming_pattern = <<>>
    /\ tracked_files = <<>>
    /\ dest_folder = ""
    /\ copy_rename_btn = "disabled"
    /\ latest_rename_info = None
    /\ status = Status("ready", 0, 0)
    /\ stack = <<>>
    /\ after_queue = 0
    /\ disk = {}
    /\ dest = EmptyDest
    /\ commit_log = <<>>
    /\ passes = 0
    /\ pass_start = NoFrame
    /\ file_formats = <<"*">>
    /\ last_file_time = 0
    /\ observer = FALSE
    /\ mtime = [p \in Paths |-> 0]
    /\ now = 0
    /\ notified = None
    /\ timers = NoTimers
    /\ cancelled = FALSE

\* rule.get_value(...)
GetValue ==
    /\ Len(outputs) < MaxCalls
    /\ rule' = get_value(rule).rule
    /\ outputs' = Append(outputs, get_value(rule).value)
    /\ last_op' = "get_value"
    /\ UNCHANGED <<avars, tvars, cancelled>>

\* rule.reset()
Reset ==
    /\ rule' = reset(rule)
    /\ outputs' = <<>>
    /\ last_op' = "reset"
    /\ UNCHANGED <<avars, tvars, cancelled>>

\* rule.increment_batch(), BatchRule only
IncrementBatch ==
    /\ rule.type = "batch"
    /\ rule.batch_count < MaxCalls
    /\ rule' = BatchRule_increment_batch(rule)
    /\ outputs' = <<>>
    /\ last_op' = "increment_batch"
    /\ UNCHANGED <<avars, tvars, cancelled>>

NextRule == GetValue \/ Reset \/ IncrementBatch

SpecRule == InitRule /\ [][NextRule]_vars

-----------------------------------------------------------------------------
(* SpecRuleSet: the rule set edited through the rules panel and replaced  *)
(* by a settings file.                                                     *)

\* a BatchRule.to_dict that leaves out the progress of the rule
to_dict_without_progress(r) ==
    CASE r.type = "counter" ->
            [type |-> "counter", tag_name |-> r.tag_name,
             start_value |-> r.start_value, increment |-> r.increment,
             step |-> r.step, max_value |-> r.max_value]
      [] r.type = "list" ->
            [type |-> "list", tag_name |-> r.tag_name,
             values |-> r.values, step |-> r.step]
      [] r.type = "batch" ->
            [type |-> "batch", tag_name |-> r.tag_name,
             start_value |-> r.start_value, increment |-> r.increment,
             step |-> r.step, max_value |-> r.max_value]

\* CounterRule.to_dict / ListRule.to_dict / BatchRule.to_dict
to_dict(r) ==
    CASE r.type = "counter" ->
            [type |-> "counter", tag_name |-> r.tag_name,
             start_value |-> r.start_value, increment |-> r.increment,
             step |-> r.step, max_value |-> r.max_value]
      [] r.type = "list" ->
            [type |-> "list", tag_name |-> r.tag_name,
             values |-> r.values, step |-> r.step]
      [] r.type = "batch" ->
            [type |-> "batch", tag_name |-> r.tag_name,
             start_value |-> r.start_value, increment |-> r.increment,
             step |-> r.step, max_value |-> r.max_value,
             current_value |-> r.current_value,
             batch_count |-> r.batch_count]

\* data.get(key, default)
get(data, key, default) ==
    IF key \in DOMAIN data THEN data[key] ELSE default

\* keys that from_dict would read with data[key] if it tolerated no
\* missing field at all
SubscriptedKeysStrict(type) ==
    IF type = "list" THEN {"tag_name", "values", "step"}
    ELSE IF type = "counter"
         THEN {"tag_name", "start_value", "increment", "step", "max_value"}
         ELSE {"tag_name", "start_value", "increment", "step", "max_value",
               "current_value", "batch_count"}

\* the keys from_dict reads with data[key]: a missing one raises KeyError
SubscriptedKeys(type) ==
    IF type = "list" THEN {"tag_name", "values"}
    ELSE {"tag_name", "start_value", "increment"}

\* from_dict raises KeyError on this dictionary
from_dict_raises(data) == ~(SubscriptedKeys(data.type) \subseteq DOMAIN data)

\* from_dict that takes every rule for one with step 1
from_dict_step_one(data) ==
    CASE data.type = "counter" ->
            CounterRule(data.tag_name, data.start_value, data.increment,
                        1, get(data, "max_value", None))
      [] data.type = "list" ->
            ListRule(data.tag_name, data.values, 1)
      [] data.type = "batch" ->
            [BatchRule(data.tag_name, data.start_value, data.increment,
                       1, get(data, "max_value", None))
                EXCEPT !.current_value =
                           get(data, "current_value", data.start_value),
                       !.batch_count = get(data, "batch_count", 0)]

\* CounterRule.from_dict / ListRule.from_dict / BatchRule.from_dict, for a
\* dictionary on which they do not raise
from_dict(data) ==
    CASE data.type = "counter" ->
            CounterRule(data.tag_name, data.start_value, data.increment,
                        get(data, "step", 1), get(data, "max_value", None))
      [] data.type = "list" ->
            ListRule(data.tag_name, data.values, get(data, "step", 1))
      [] data.type = "batch" ->
            [BatchRule(data.tag_name, data.start_value, data.increment,
                       get(data, "step", 1), get(data, "max_value", None))
                EXCEPT !.current_value =
                           get(data, "current_value", data.start_value),
                       !.batch_count = get(data, "batch_count", 0)]

\* "Load rules": entries of an unknown type are passed over; an entry on
\* which from_dict raises ends the loop, and the rules loaded before it stay
RECURSIVE LoadRulesFrom(_, _)
LoadRulesFrom(rule_data, loaded) ==
    IF rule_data = <<>> THEN [rules |-> loaded, raised |-> FALSE]
    ELSE IF Head(rule_data).type \in {"counter", "list", "batch"}
         THEN IF from_dict_raises(Head(rule_data))
              THEN [rules |-> loaded, raised |-> TRUE]
              ELSE LoadRulesFrom(Tail(rule_data),
                                 Append(loaded, from_dict(Head(rule_data))))
         ELSE LoadRulesFrom(Tail(rule_data), loaded)

LoadRules(rule_data) == LoadRulesFrom(rule_data, <<>>)

MaxRules == 3      \* rules in the rule set

DefaultPattern == <<"f", "i", "l", "e", "_">> \o Tag(TagCounter)

\* a settings file of an earlier version: the rules have no step and no
\* max_value, the batch rule no current_value and no batch_count
OldSettingsFile ==
    [naming_pattern |-> Tag(TagC) \o Tag(TagB), dest_folder |-> "dir",
     rules |-> <<[type |-> "counter", tag_name |-> TagC,
                  start_value |-> 1, increment |-> 2],
                 [type |-> "list", tag_name |-> TagL,
                  values |-> <<<<"x">>, <<"y">>>>],
                 [type |-> "batch", tag_name |-> TagB,
                  start_value |-> 2, increment |-> 1]>>]

\* the JSON files the user can pick in the import dialog: one the
\* application exported, one with an entry of a type it does not know, one
\* written by hand in which two rules carry the tag "counter", one of an
\* earlier version, and one whose second rule has no increment
SettingsFiles ==
    { [naming_pattern |-> DefaultPattern, dest_folder |-> "dir",
       rules |-> <<to_dict(CounterRule(TagCounter, 1, 1, 1, None)),
                   to_dict(BatchRule(TagB, 0, 1, 1, None))>>],
      [naming_pattern |-> Tag(TagL), dest_folder |-> "",
       rules |-> <<[type |-> "date", tag_name |-> <<"d">>],
                   to_dict(ListRule(TagL, <<<<"x">>>>, 1))>>],
      [naming_pattern |-> DefaultPattern, dest_folder |-> "dir",
       rules |-> <<to_dict(CounterRule(TagCounter, 0, 1, 1, None)),
                   to_dict(ListRule(TagCounter, <<<<"x">>>>, 1))>>],
      OldSettingsFile,
      [naming_pattern |-> Tag(TagL), dest_folder |-> "dir",
       rules |-> <<to_dict(ListRule(TagL, <<<<"x">>>>, 1)),
                   [type |-> "counter", tag_name |-> TagC, start_value |-> 0],
                   to_dict(BatchRule(TagB, 0, 1, 1, None))>>] }

\* tags typed into the tag entry of a rule row
TypedTags == {<<" ">>, TagC, TagCounter, TagCounter \o <<"1">>}

InitRuleSet ==
    /\ rules = <<>>
    /\ naming_pattern = DefaultPattern
    /\ tracked_files = <<>>
    /\ dest_folder = ""
    /\ copy_rename_btn = "disabled"
    /\ latest_rename_info = None
    /\ status = Status("ready", 0, 0)
    /\ stack = <<>>
    /\ after_queue = 0
    /\ disk = {}
    /\ dest = EmptyDest
    /\ commit_log = <<>>
    /\ passes = 0
    /\ pass_start = NoFrame
    /\ rule = CounterRule(TagC, 0, 1, 1, None)
    /\ outputs = <<>>
    /\ last_op = "init"
    /\ file_formats = <<"*">>
    /\ last_file_time = 0
    /\ observer = FALSE
    /\ mtime = [p \in Paths |-> 0]
    /\ now = 0
    /\ notified = None
    /\ timers = NoTimers
    /\ cancelled = FALSE

\* what the rules panel leaves alone
evars == <<naming_pattern, tracked_files, dest_folder, latest_rename_info,
           stack, after_queue, disk, dest, commit_log, passes, pass_start,
           rvars, tvars, cancelled>>

\* "Find a unique tag name": counter, counter1, counter2, ...
UniqueTagName(rs) ==
    LET used(t) == \E j \in 1..Len(rs) : rs[j].tag_name = t
        name(k) == IF k = 0 THEN TagCounter ELSE TagCounter \o str(k)
        k0 == CHOOSE k \in 0..Len(rs) :
                  ~used(name(k)) /\ \A m \in 0..(k - 1) : used(name(m))
    IN  name(k0)

\* add_rule
add_rule ==
    /\ Len(rules) < MaxRules
    /\ UpdateFilesDisplayTo(
           Append(rules, CounterRule(UniqueTagName(rules), 0, 1, 1, None)),
           naming_pattern, tracked_files)
    /\ UNCHANGED <<status, evars>>

\* change_rule_type(index, new_type)
change_rule_type(index, new_type) ==
    /\ index \in 1..Len(rules)
    /\ LET tag_name == rules[index].tag_name
           new_rule ==
               CASE new_type = "CounterRule" ->
                       CounterRule(tag_name, 0, 1, 1, None)
                 [] new_type = "ListRule" ->
                       ListRule(tag_name,
                                <<<<"v", "a", "l", "u", "e", "1">>>>, 1)
                 [] new_type = "BatchRule" ->
                       BatchRule(tag_name, 0, 1, 1, None)
       IN  UpdateFilesDisplayTo([rules EXCEPT ![index] = new_rule],
                                naming_pattern, tracked_files)
    /\ UNCHANGED <<status, evars>>

\* a duplicate check that finds nothing
tag_in_use_never(rs, index, new_tag) == FALSE

\* "Check for duplicate tag names": any(rule.tag_name == new_tag for i,
\* rule in enumerate(self.rules) if i != index)
tag_in_use(rs, index, new_tag) ==
    \E i \in 1..Len(rs) : i # index /\ rs[i].tag_name = new_tag

\* update_rule_tag(index, new_tag)
update_rule_tag(index, new_tag) ==
    /\ index \in 1..Len(rules)
    /\ IF strip(new_tag) = <<>>
       THEN UNCHANGED <<rules, copy_rename_btn, status>>
       ELSE IF tag_in_use(rules, index, new_tag)
       THEN /\ status' = Status("tag_exists", 0, 0)
            /\ UNCHANGED <<rules, copy_rename_btn>>
       ELSE /\ UpdateFilesDisplayTo(
                   [rules EXCEPT ![index].tag_name = new_tag],
                   naming_pattern, tracked_files)
            /\ UNCHANGED status
    /\ UNCHANGED evars

\* delete_rule_by_index(index)
delete_rule_by_index(index) ==
    /\ index \in 1..Len(rules)
    /\ UpdateFilesDisplayTo(
           SubSeq(rules, 1, index - 1) \o SubSeq(rules, index + 1, Len(rules)),
           naming_pattern, tracked_files)
    /\ UNCHANGED <<status, evars>>

\* import_settings (load_settings reads the settings file the same way)
import_settings(settings) ==
    /\ dest_folder' = settings.dest_folder
    /\ naming_pattern' = settings.naming_pattern
    /\ rules' = LoadRules(settings.rules).rules
    /\ IF LoadRules(settings.rules).raised
       THEN \* except Exception: "Failed to import settings"
            /\ status' = Status("import_failed", 0, 0)
            /\ UNCHANGED copy_rename_btn
       ELSE /\ copy_rename_btn' =
                   update_button_states(tracked_files, dest_folder',
                       PreviewFullNames(rules', naming_pattern',
                                        tracked_files).names)
            /\ status' = Status("imported", 0, 0)
    /\ UNCHANGED <<tracked_files, latest_rename_info, stack, after_queue,
                   disk, dest, commit_log, passes, pass_start, rvars, tvars, cancelled>>

NextRuleSet ==
    \/ add_rule
    \/ \E i \in 1..MaxRules :
           \E t \in {"CounterRule", "ListRule", "BatchRule"} :
               change_rule_type(i, t)
    \/ \E i \in 1..MaxRules : \E t \in TypedTags : update_rule_tag(i, t)
    \/ \E i \in 1..MaxRules : delete_rule_by_index(i)
    \/ \E f \in SettingsFiles : import_settings(f)

SpecRuleSet == InitRuleSet /\ [][NextRuleSet]_vars

-----------------------------------------------------------------------------
(* SpecPersist: one rule object that is driven by its methods, edited in   *)
(* the rules panel, and written to the settings file and read back.        *)

RoundTripCalls == 10   \* get_value calls compared after a round trip

\* on_closing saves the settings and the next start loads them: the rule
\* object is rebuilt from its dictionary
save_and_load_settings ==
    /\ rule' = from_dict(to_dict(rule))
    /\ outputs' = <<>>
    /\ last_op' = "load_settings"
    /\ UNCHANGED <<avars, tvars, cancelled>>

\* update_batch_current(index, value), for the rule under test
UpdateBatchCurrent(value) ==
    /\ rule.type = "batch"
    /\ rule' = [rule EXCEPT !.current_value = value]
    /\ outputs' = <<>>
    /\ last_op' = "update_batch_current"
    /\ UNCHANGED <<avars, tvars, cancelled>>

NextPersist ==
    \/ NextRule
    \/ save_and_load_settings
    \/ \E v \in Starts : UpdateBatchCurrent(v)

SpecPersist == InitRule /\ [][NextPersist]_vars

\* the values of the next n get_value calls on r
RECURSIVE ValueSeq(_, _)
ValueSeq(r, n) ==
    IF n = 0 THEN <<>>
    ELSE <<get_value(r).value>> \o ValueSeq(get_value(r).rule, n - 1)

\* r after n increment_batch calls
RECURSIVE AfterBatches(_, _)
AfterBatches(r, n) ==
    IF n = 0 THEN r ELSE AfterBatches(BatchRule_increment_batch(r), n - 1)

-----------------------------------------------------------------------------
(* SpecTrack: a tracking session. Files appear in the source folder, the   *)
(* watcher hands paths to add_tracked_file.                                 *)

MaxTime == 2       \* the clock runs from 0 to MaxTime

\* the files that appear during the session: /a.j, /b.j and /c
TrackPaths == {PathSeq[1], PathSeq[2], PathSeq[3]}

\* what the user has typed into the formats entry: "*", ".j", "*.J;c",
\* " ; " and ".p; *"
FormatStrings ==
    { <<"*">>,
      <<".", "j">>,
      <<"*", ".", "J", ";", "c">>,
      <<" ", ";", " ">>,
      <<".", "p", ";", " ", "*">> }

InitTrack ==
    /\ file_formats \in FormatStrings
    /\ last_file_time = 0
    /\ observer = FALSE
    /\ disk = {}
    /\ mtime = [p \in Paths |-> 0]
    /\ now = 0
    /\ notified = None
    /\ timers = NoTimers
    /\ cancelled = FALSE
    /\ rules = <<CounterRule(TagCounter, 1, 1, 1, None)>>
    /\ naming_pattern = DefaultPattern
    /\ tracked_files = <<>>
    /\ dest_folder = "dir"
    /\ copy_rename_btn = "disabled"
    /\ latest_rename_info = None
    /\ status = Status("ready", 0, 0)
    /\ stack = <<>>
    /\ after_queue = 0
    /\ dest = EmptyDest
    /\ commit_log = <<>>
    /\ passes = 0
    /\ pass_start = NoFrame
    /\ rule = CounterRule(TagC, 0, 1, 1, None)
    /\ outputs = <<>>
    /\ last_op = "init"

\* what a tracking session leaves alone
svars == <<rules, naming_pattern, dest_folder, latest_rename_info, stack,
           after_queue, dest, commit_log, passes, pass_start, rvars,
           timers, cancelled>>

\* get_most_recent_file_time
get_most_recent_file_time ==
    IF disk = {} THEN now ELSE Max({mtime[p] : p \in disk})

\* start_tracking, the source folder being set and there
start_tracking ==
    /\ last_file_time' = get_most_recent_file_time
    /\ observer' = TRUE
    /\ status' = Status("tracking_started", 0, 0)
    /\ UNCHANGED <<tracked_files, copy_rename_btn, file_formats, mtime, now,
                   disk, notified, svars>>

\* stop_tracking
stop_tracking ==
    /\ observer
    /\ observer' = FALSE
    /\ status' = Status("tracking_stopped", 0, 0)
    /\ UNCHANGED <<tracked_files, copy_rename_btn, file_formats,
                   last_file_time, mtime, now, disk, notified, svars>>

\* time passes
Tick ==
    /\ now < MaxTime
    /\ now' = now + 1
    /\ UNCHANGED <<tracked_files, copy_rename_btn, status, file_formats,
                   last_file_time, observer, mtime, disk, notified, svars>>

\* a file appears in the source folder: written now, or copied in with
\* the modification time file_time it had before
CreateFile(path, file_time) ==
    /\ path \notin disk
    /\ file_time <= now
    /\ disk' = disk \cup {path}
    /\ mtime' = [mtime EXCEPT ![path] = file_time]
    /\ UNCHANGED <<tracked_files, copy_rename_btn, status, file_formats,
                   last_file_time, observer, now, notified, svars>>

\* FileWatcher._process_new_file: the file can be opened, and the path
\* goes to add_tracked_file
process_new_file(file_path) ==
    /\ observer
    /\ add_tracked_file(file_path)
    /\ notified' = [path |-> file_path,
                    added |-> tracked_files' # tracked_files]

NextTrack ==
    \/ start_tracking
    \/ stop_tracking
    \/ Tick
    \/ \E p \in TrackPaths : \E t \in 0..MaxTime : CreateFile(p, t)
    \/ \E p \in TrackPaths : process_new_file(p)

SpecTrack == InitTrack /\ [][NextTrack]_vars

-----------------------------------------------------------------------------
(* SpecThreads: add_tracked_file on the watcher's timer threads, step by   *)
(* step, next to the handlers of the UI thread and the API's read. The      *)
(* code takes no lock; a thread switch can fall between the membership     *)
(* test of add_tracked_file and its append.                                *)

MaxTimers == 2     \* timer threads alive at a time

\* the files of the source folder: /a.j and /b.j
ThreadPaths == {PathSeq[1], PathSeq[2]}

IdleTimer == [pc |-> "idle", path |-> <<>>]

InitThreads ==
    /\ timers = [t \in 1..MaxTimers |-> IdleTimer]
    /\ file_formats = <<"*">>
    /\ last_file_time = 0
    /\ observer = TRUE
    /\ disk = Paths
    /\ mtime = [p \in Paths |-> 1]
    /\ now = 1
    /\ notified = None
    /\ cancelled = FALSE
    /\ rules = <<CounterRule(TagCounter, 1, 1, 1, None)>>
    /\ naming_pattern = DefaultPattern
    /\ tracked_files = <<>>
    /\ dest_folder = "dir"
    /\ copy_rename_btn = "disabled"
    /\ latest_rename_info = None
    /\ status = Status("ready", 0, 0)
    /\ stack = <<>>
    /\ after_queue = 0
    /\ dest = EmptyDest
    /\ commit_log = <<>>
    /\ passes = 0
    /\ pass_start = NoFrame
    /\ rule = CounterRule(TagC, 0, 1, 1, None)
    /\ outputs = <<>>
    /\ last_op = "init"

\* what the timer threads and the list handlers leave alone
hvars == <<naming_pattern, dest_folder, latest_rename_info, stack,
           after_queue, disk, dest, commit_log, passes, pass_start, rvars,
           file_formats, last_file_time, observer, mtime, now, notified,
           cancelled>>

\* FileWatcher.on_created: a Timer thread is started for the path; the
\* thread sleeps, opens the file and calls add_tracked_file
FileWatcher_on_created(t, file_path) ==
    /\ observer
    /\ timers[t].pc = "idle"
    /\ file_path \in disk
    /\ timers' = [timers EXCEPT ![t] = [pc |-> "test", path |-> file_path]]
    /\ UNCHANGED <<rules, tracked_files, copy_rename_btn, status, hvars>>

\* add_tracked_file on timer thread t, up to the membership test
\* "if file_path not in self.tracked_files"
add_tracked_file_test(t) ==
    /\ timers[t].pc = "test"
    /\ timers' = [timers EXCEPT ![t] =
           IF /\ should_track_file(file_formats, timers[t].path)
              /\ created_after(mtime[timers[t].path], last_file_time)
              /\ timers[t].path \notin Tracked
           THEN [pc |-> "append", path |-> timers[t].path]
           ELSE IdleTimer]
    /\ UNCHANGED <<rules, tracked_files, copy_rename_btn, status, hvars>>

\* add_tracked_file on timer thread t, from the append on: the path is
\* appended and the display updated, and the thread ends
add_tracked_file_append(t) ==
    /\ timers[t].pc = "append"
    /\ tracked_files' = Append(tracked_files, timers[t].path)
    /\ UpdateFilesDisplayTo(rules, naming_pattern, tracked_files')
    /\ timers' = [timers EXCEPT ![t] = IdleTimer]
    /\ UNCHANGED <<status, hvars>>

\* the loop of add_files_manually: the tracked list afterwards
RECURSIVE AddManually(_, _)
AddManually(files, file_paths) ==
    IF file_paths = <<>> THEN files
    ELSE AddManually(
             IF /\ should_track_file(file_formats, Head(file_paths))
                /\ \A i \in 1..Len(files) : files[i] # Head(file_paths)
             THEN Append(files, Head(file_paths)) ELSE files,
             Tail(file_paths))

\* add_files_manually, for the files picked in the dialog, on the UI thread
add_files_manually(file_paths) ==
    /\ tracked_files' = AddManually(tracked_files, file_paths)
    /\ IF tracked_files' # tracked_files
       THEN /\ UpdateFilesDisplayTo(rules, naming_pattern, tracked_files')
            /\ status' = Status("added", 0, 0)
       ELSE /\ status' = Status("none_added", 0, 0)
            /\ UNCHANGED <<rules, copy_rename_btn>>
    /\ UNCHANGED <<timers, hvars>>

\* clear_tracked, on the UI thread
clear_tracked ==
    /\ tracked_files' = <<>>
    /\ UpdateFilesDisplayTo(rules, naming_pattern, tracked_files')
    /\ UNCHANGED <<status, timers, hvars>>

NextThreads ==
    \/ \E t \in 1..MaxTimers : \E p \in ThreadPaths :
           FileWatcher_on_created(t, p)
    \/ \E t \in 1..MaxTimers : add_tracked_file_test(t)
    \/ \E t \in 1..MaxTimers : add_tracked_file_append(t)
    \/ \E p \in ThreadPaths : add_files_manually(<<p>>)
    \/ \E i \in 0..(MaxFiles - 1) : remove_file_at_index(i)
    \/ clear_tracked
    \/ \E n \in 1..MaxFiles : api_tracking_get(n)

SpecThreads == InitThreads /\ [][NextThreads]_vars

-----------------------------------------------------------------------------
(* Properties of the application, checked under Spec *)

\* a commit pass is running (the loop of copy_and_rename)
InPass == stack # <<>> /\ Top.pc = "copying"

\* this step ends a pass normally (the code after the loop has run)
PassCompletes == ~pass_start.done /\ pass_start'.done

\* C1 (preview/commit equivalence): in the first commit pass of a fresh
\* rule set, over files that all exist, the base name generate_filename
\* produces for the file at index i equals generate_filename_preview(i, n)
\* as computed when the pass began.
C1_PreviewCommitEquivalence ==
    (InPass /\ pass_start.fresh) =>
        \A k \in 1..Len(commit_log) :
            (commit_log[k].i = k - 1 /\ k <= Len(pass_start.previews)) =>
                commit_log[k].name = pass_start.previews[k]

\* a step that only computes previews: a discovered file is appended and
\* displayed, the API lists the tracked files, or copy_and_rename finds
\* existing destination names and opens the conflict dialog
PreviewOnlyStep ==
    \/ \E p \in Paths : add_tracked_file(p)
    \/ \E n \in 1..MaxFiles : api_tracking_get(n)
    \/ /\ Len(stack') > 0
       /\ stack'[Len(stack')].pc = "conflict_dialog"
       /\ \/ Len(stack') > Len(stack)
          \/ Len(stack') = Len(stack) /\ Top.pc = "askyesno"

\* C2 (preview is side-effect-free): whatever computes previews (the
\* display and the conflict detection behind the button state, the API's
\* listing, the collision check of a commit) leaves every live rule exactly
\* as it was.
C2_PreviewSideEffectFree == [][PreviewOnlyStep => rules' = rules]_vars

\* three files are displayed with their previews and the button is enabled
\* by the conflict detection, and the counter in the pattern has not moved
C2_Witness ==
    /\ Len(tracked_files) = 3
    /\ copy_rename_btn = "normal"
    /\ passes = 0
    /\ rules[1].type = "counter"
    /\ Contains(naming_pattern, Tag(rules[1].tag_name))
    /\ rules[1].operation_count = 0
    /\ rules[1].current_value = rules[1].start_value

\* C3 (duplicate blocking): no commit pass begins (rules reset, files
\* copied, batch advanced, list cleared) while two tracked files have the
\* same generated full name, whether the request came from the button or
\* from the API.
C3_DuplicateBlocking ==
    [][passes' = passes + 1 =>
         ~has_any_conflicts(
             PreviewFullNames(rules, naming_pattern, tracked_files).names)]_vars

\* C4 (no re-entrant commit): a commit request arriving while another
\* copy_and_rename call is in flight never begins a pass.
C4_NoReentrantCommit == [][passes' = passes + 1 => Len(stack') = 1]_vars

\* C5 (batch rules advance once per completed commit): when a pass over
\* n >= 1 files completes, every Batch rule, in the pattern or not, has
\* the batch_count it had when the pass began plus 1.
C5_BatchAdvanceOncePerCommit ==
    [][(PassCompletes /\ Top.i >= 1) =>
         /\ Len(rules') = Len(pass_start.rules)
         /\ \A j \in 1..Len(rules') :
                pass_start.rules[j].type = "batch" =>
                    /\ rules'[j].type = "batch"
                    /\ rules'[j].batch_count =
                           pass_start.rules[j].batch_count + 1]_vars

\* a pass over three files has completed and a Batch rule whose tag is not
\* in the pattern has been advanced once
C5_Witness ==
    /\ pass_start.done
    /\ status.kind = "copied"
    /\ status.copied = 3
    /\ \E j \in 1..Len(rules) :
           /\ rules[j].type = "batch"
           /\ ~Contains(naming_pattern, Tag(rules[j].tag_name))
           /\ rules[j].batch_count = 1

BatchCalls(entry) ==
    {entry.calls[c] : c \in 1..Len(entry.calls)}

\* C6 (batch immutability within a commit): naming a file changes no Batch
\* rule's current_value or batch_count, every file named in one pass gets
\* the same value from a Batch rule, and a Batch rule's value changes only
\* when a pass completes (increment_batch) or the user edits it.
C6_BatchImmutableWithinCommit ==
    [][/\ (commit_log' # commit_log /\ commit_log' # <<>>) =>
            /\ \A j \in 1..Len(rules) :
                   rules[j].type = "batch" => rules'[j] = rules[j]
            /\ \A e1, e2 \in {commit_log'[k] : k \in 1..Len(commit_log')} :
                   \A c1 \in BatchCalls(e1), c2 \in BatchCalls(e2) :
                       (c1.type = "batch" /\ c1.index = c2.index) =>
                           c1.value = c2.value
       /\ \A j \in 1..Len(rules) :
              (/\ rules[j].type = "batch"
               /\ j <= Len(rules')
               /\ rules'[j].type = "batch"
               /\ \/ rules'[j].current_value # rules[j].current_value
                  \/ rules'[j].batch_count # rules[j].batch_count)
              => \/ PassCompletes
                 \/ \E i \in 1..Len(rules) : update_batch_current(i, 0)]_vars

\* the third file of a second pass got the advanced value of the Batch rule
C6_Witness ==
    /\ InPass
    /\ passes = 2
    /\ Len(commit_log) >= 3
    /\ \E c \in BatchCalls(commit_log[3]) :
           c.type = "batch" /\ c.value = <<"1">>
    /\ \E c \in BatchCalls(commit_log[1]) :
           c.type = "batch" /\ c.value = <<"1">>

-----------------------------------------------------------------------------
(* Properties of the rule classes, checked under SpecRule *)

\* C7 (reset asymmetry): reset() puts a Counter back to current_value =
\* start_value and operation_count = 0 and a List back to current_index = 0
\* and operation_count = 0, and leaves a Batch rule's current_value and
\* batch_count exactly as they were.
C7_ResetAsymmetry ==
    [][last_op' = "reset" =>
         /\ rule.type = "counter" =>
                /\ rule'.current_value = rule'.start_value
                /\ rule'.operation_count = 0
         /\ rule.type = "list" =>
                /\ rule'.current_index = 0
                /\ rule'.operation_count = 0
         /\ rule.type = "batch" =>
                /\ rule'.current_value = rule.current_value
                /\ rule'.batch_count = rule.batch_count]_vars

\* a Batch rule that has advanced away from its start value was reset
C7_Witness ==
    /\ last_op = "reset"
    /\ rule.type = "batch"
    /\ rule.batch_count > 0
    /\ rule.current_value # rule.start_value

CounterExample8 == CounterRule(TagC, 0, 3, 1, <<7>>)

\* C8 (counter wrap): CounterRule.get_value returns the value held before
\* the call; on an advancing call it adds increment and, when max_value is
\* set and the sum is strictly greater, puts current_value back to
\* start_value. Counter(start=0, inc=3, max=7, step=1) returns 0,3,6,0,3,6.
C8_CounterWrap ==
    [][(last_op' = "get_value" /\ rule.type = "counter") =>
         LET sum == rule.current_value + rule.increment IN
         /\ outputs'[Len(outputs')] = str(rule.current_value)
         /\ rule'.current_value =
                IF (rule.operation_count + 1) % rule.step # 0
                THEN rule.current_value
                ELSE IF rule.max_value # None /\ sum > rule.max_value[1]
                     THEN rule.start_value
                     ELSE sum
         /\ (CounterRule_reset(rule) = CounterExample8 /\ Len(outputs') <= 6) =>
                outputs' = SubSeq(<<<<"0">>, <<"3">>, <<"6">>,
                                    <<"0">>, <<"3">>, <<"6">>>>,
                                  1, Len(outputs'))]_vars

\* the counter of the example has answered six calls and wrapped twice
C8_Witness ==
    /\ CounterRule_reset(rule) = CounterExample8
    /\ Len(outputs) = 6
    /\ outputs[4] = <<"0">>
    /\ outputs[6] = <<"6">>

\* C9 (step gating): for a freshly reset Counter without max_value the k-th
\* get_value call (k from 0) returns start_value + increment * floor(k/step).
\* Counter(start=0, inc=1, step=3) returns 0,0,0,1,1,1.
C9_StepGating ==
    (rule.type = "counter" /\ rule.max_value = None) =>
        \A k \in 0..(Len(outputs) - 1) :
            outputs[k + 1] =
                str(rule.start_value + rule.increment * (k \div rule.step))

\* Counter(start=0, inc=1, step=3) after six calls
C9_Witness ==
    /\ CounterRule_reset(rule) = CounterRule(TagC, 0, 1, 3, None)
    /\ outputs = <<<<"0">>, <<"0">>, <<"0">>, <<"1">>, <<"1">>, <<"1">>>>

\* C10 (list cycling): for a freshly reset List rule with values the k-th
\* get_value call (k from 0) returns values[floor(k/step) mod len(values)];
\* with no values every call returns the empty string.
C10_ListCycling ==
    rule.type = "list" =>
        \A k \in 0..(Len(outputs) - 1) :
            outputs[k + 1] =
                IF rule.values = <<>> THEN <<>>
                ELSE rule.values[((k \div rule.step) % Len(rule.values)) + 1]

\* List(["a","b"], step=2) after four calls
C10_Witness ==
    /\ rule.type = "list"
    /\ rule.values = <<<<"a">>, <<"b">>>>
    /\ rule.step = 2
    /\ outputs = <<<<"a">>, <<"a">>, <<"b">>, <<"b">>>>

-----------------------------------------------------------------------------
(* Expansion, checked under Spec *)

\* C11 (only rules named in the pattern are invoked): during a commit pass
\* a Counter or List rule whose {tag} does not occur in the naming pattern
\* stays at its reset values (it never consumes a step), and within the
\* naming of one file the rules are called in rule-set order.
C11_UnusedRuleNeverInvoked ==
    InPass =>
        /\ \A j \in 1..Len(rules) :
               (/\ rules[j].type \in {"counter", "list"}
                /\ ~Contains(naming_pattern, Tag(rules[j].tag_name)))
               => rules[j] = reset(rules[j])
        /\ \A k \in 1..Len(commit_log) :
               \A c1, c2 \in 1..Len(commit_log[k].calls) :
                   c1 < c2 => commit_log[k].calls[c1].index
                                  < commit_log[k].calls[c2].index

\* C12 (a placeholder without a rule stays verbatim): for every tag of the
\* pattern that no rule carries, the name generate_filename produces and
\* every preview contain the placeholder as written, and the rules end up
\* exactly as they do for the pattern without that placeholder.
C12_MissingTagLeftVerbatim ==
    LET missing == get_missing_rule_tags(naming_pattern, rules) IN
    \A m \in 1..Len(missing) :
        LET tag == Tag(missing[m])
            without == replace(naming_pattern, tag, <<>>)
            g == generate_filename(rules, naming_pattern)
            g0 == generate_filename(rules, without)
        IN  /\ Contains(g.name, tag)
            /\ replace(g.name, tag, <<>>) = g0.name
            /\ g.rules = g0.rules
            /\ \A i \in 0..(MaxFiles - 1) :
                   LET pv == generate_filename_preview(rules, naming_pattern, i)
                   IN  /\ Contains(pv.name, tag)
                       /\ pv.rules = rules
            /\ \A k \in 1..Len(commit_log) : Contains(commit_log[k].name, tag)

\* two files have been named in a pass whose pattern has the tag {m}, which
\* no rule carries, and the counter of the pattern has advanced
C12_Witness ==
    /\ InPass
    /\ Len(commit_log) = 2
    /\ get_missing_rule_tags(naming_pattern, rules) = <<<<"m">>>>
    /\ Contains(commit_log[2].name, Tag(<<"m">>))
    /\ rules[1].operation_count = 2

-----------------------------------------------------------------------------
(* The rule set, checked under SpecRuleSet *)

\* C13 (tag uniqueness): in every reachable state no two rules of the rule
\* set have the same tag_name.
C13_TagUniqueness ==
    \A i, j \in 1..Len(rules) :
        i # j => rules[i].tag_name # rules[j].tag_name

-----------------------------------------------------------------------------
(* The commit handler, checked under Spec *)

\* a commit request reaches copy_and_rename: the button, or the callback
\* the API scheduled
CommitRequest == click_copy_rename \/ run_after_callback

\* C14 (the guards fail closed): a commit request made with no tracked
\* file, with no destination selected or with a destination that does not
\* exist returns at once: no rule is reset or advanced, nothing is copied,
\* no pass begins and the tracked list is as it was.
C14_GuardsFailClosed ==
    [][(/\ CommitRequest
        /\ \/ tracked_files = <<>>
           \/ dest_folder = ""
           \/ dest_folder = "missing")
       => /\ rules' = rules
          /\ tracked_files' = tracked_files
          /\ dest' = dest
          /\ latest_rename_info' = latest_rename_info
          /\ passes' = passes
          /\ commit_log' = commit_log
          /\ stack' = stack]_vars

\* a request with three tracked files was turned down because the
\* destination folder does not exist
C14_Witness ==
    /\ status.kind = "dest_missing"
    /\ dest_folder = "missing"
    /\ Len(tracked_files) = 3
    /\ passes = 0
    /\ stack = <<>>

\* copy_and_rename finds generated names in the destination and opens the
\* collision dialog
OpensConflictDialog ==
    /\ Len(stack') > 0
    /\ stack'[Len(stack')].pc = "conflict_dialog"
    /\ \/ Len(stack') > Len(stack)
       \/ Len(stack') = Len(stack) /\ Top.pc = "askyesno"

\* C15 (cancelling the collision dialog is a no-op): neither the step that
\* opens the collision dialog nor the answer cancel (or closing the window)
\* changes the tracked list, a rule, the destination or the latest-rename
\* record; on cancel copy_and_rename returns and no pass begins.
C15_CancelIsNoOp ==
    [][(OpensConflictDialog \/ answer_conflict_dialog("cancel")) =>
          /\ rules' = rules
          /\ tracked_files' = tracked_files
          /\ dest' = dest
          /\ latest_rename_info' = latest_rename_info
          /\ passes' = passes
          /\ commit_log' = commit_log
          /\ answer_conflict_dialog("cancel") => stack' = Base]_vars

\* after one completed pass (the batch rule has advanced, a file is in the
\* destination) a second request over two files was cancelled in the dialog
C15_Witness ==
    /\ cancelled
    /\ stack = <<>>
    /\ passes = 1
    /\ Len(tracked_files) = 2
    /\ \E n \in DOMAIN dest : dest[n] = "new"
    /\ \E j \in 1..Len(rules) :
           rules[j].type = "batch" /\ rules[j].batch_count = 1

\* the file the running pass names in this step, with its extension
NamedFile ==
    LET e == commit_log'[Len(commit_log')]
        file_ext == splitext(tracked_files[Top.i + 1])[2]
    IN  [base |-> e.name, ext |-> file_ext, full |-> e.name \o file_ext]

\* C16 (rename policy): under the policy rename a copy never lands on an
\* entry the destination already has; a file whose generated name
\* <base><ext> exists is copied to <base>_<k><ext> for the smallest k >= 1
\* whose name is not in the destination, any other file to <base><ext>.
C16_RenamePolicy ==
    [][(/\ InPass
        /\ Top.existing_files_action = "rename"
        /\ dest' # dest)
       => LET f == NamedFile
              Candidate(k) == f.base \o <<"_">> \o str(k) \o f.ext
              written == DOMAIN dest' \ DOMAIN dest
          IN  /\ Cardinality(written) = 1
              /\ \A n \in DOMAIN dest : dest'[n] = dest[n]
              /\ IF f.full \in DOMAIN dest
                 THEN \E k \in 1..(Cardinality(DOMAIN dest) + 1) :
                          /\ written = {Candidate(k)}
                          /\ \A m \in 1..(k - 1) : Candidate(m) \in DOMAIN dest
                 ELSE written = {f.full}]_vars

\* C17 (ignore policy): under the policy ignore a file whose generated name
\* exists in the destination when it is processed is not copied: the
\* destination and the latest-rename record stay as they are, skipped_count
\* rises by one and copied_count does not; a file whose name does not exist
\* is copied under that name and counted as copied.
C17_IgnorePolicy ==
    [][(/\ InPass
        /\ Top.existing_files_action = "ignore"
        /\ commit_log' # commit_log
        /\ Len(stack') = Len(stack))
       => LET f == NamedFile
              after == stack'[Len(stack')]
          IN  IF f.full \in DOMAIN dest
              THEN /\ dest' = dest
                   /\ latest_rename_info' = latest_rename_info
                   /\ after.skipped_count = Top.skipped_count + 1
                   /\ after.copied_count = Top.copied_count
              ELSE /\ dest' = (f.full :> "new") @@ dest
                   /\ after.skipped_count = Top.skipped_count
                   /\ after.copied_count = Top.copied_count + 1]_vars

\* a pass over three files under ignore has ended: two names existed and
\* were skipped, their entries are the old ones, one file was copied
C17_Witness ==
    /\ status.kind = "copied_skipped"
    /\ status.skipped = 2
    /\ status.copied = 1
    /\ Cardinality({n \in DOMAIN dest : dest[n] = "old"}) = 2
    /\ Cardinality({n \in DOMAIN dest : dest[n] = "new"}) = 1

\* C18 (the tracked list is empty after every pass): whenever a
\* copy_and_rename call that entered its copy loop returns, after all its
\* files or after a copy error, the tracked-file list is empty.
C18_TrackedListEmptyAfterPass ==
    [][(InPass /\ Len(stack') < Len(stack)) => tracked_files' = <<>>]_vars

\* C19 (copy failure): when shutil.copy2 raises, the pass stops at that
\* file: the destination keeps what was copied before and gets nothing
\* new, copy_and_rename returns, one "Failed to copy files" status is
\* shown, and nothing is scheduled to run the commit again.
C19_CopyFailureStopsCommit ==
    [][commit_step(FALSE) =>
          /\ dest' = dest
          /\ latest_rename_info' = latest_rename_info
          /\ stack' = Base
          /\ status'.kind = "failed"
          /\ after_queue' = after_queue
          /\ passes' = passes]_vars

\* the copy of the third file failed: the two files copied before it are
\* in the destination, the call has returned with the error status
C19_Witness ==
    /\ status.kind = "failed"
    /\ stack = <<>>
    /\ Len(tracked_files) = 3
    /\ Len(commit_log) = 3
    /\ Cardinality({n \in DOMAIN dest : dest[n] = "new"}) = 2

-----------------------------------------------------------------------------
(* Discovery, checked under SpecTrack *)

\* some entry of the semicolon-separated filter, blanks aside, is "*"
StarEntry(formats_string) ==
    \E i \in 1..Len(split(formats_string, ";")) :
        strip(split(formats_string, ";")[i]) = <<"*">>

\* C20 (discovery acceptance): a path handed to add_tracked_file is
\* appended to the tracked list exactly when it passes the format filter
\* (which a "*" entry makes accept every file), its modification time is
\* strictly greater than the baseline of the latest start_tracking and it
\* is not tracked yet; otherwise the list stays as it is.
C20_DiscoveryAcceptance ==
    [][\A p \in TrackPaths :
          process_new_file(p) =>
              /\ StarEntry(file_formats) => should_track_file(file_formats, p)
              /\ IF /\ should_track_file(file_formats, p)
                    /\ mtime[p] > last_file_time
                    /\ p \notin Tracked
                 THEN tracked_files' = Append(tracked_files, p)
                 ELSE tracked_files' = tracked_files]_vars

\* /b.j is tracked; /a.j passes the filter ".j" but is as old as the
\* baseline, was handed over last and was not added
C20_Witness ==
    /\ file_formats = <<".", "j">>
    /\ notified # None
    /\ notified.path = PathSeq[1]
    /\ ~notified.added
    /\ PathSeq[1] \notin Tracked
    /\ mtime[PathSeq[1]] = last_file_time
    /\ tracked_files = <<PathSeq[2]>>

-----------------------------------------------------------------------------
(* Properties of the tracked-file list under threads, checked under        *)
(* SpecThreads *)

\* C21 (no duplicate tracked path): the tracked-file list never holds the
\* same path twice, however the discovery notifications on the timer
\* threads interleave with each other and with the additions, removals,
\* reads and clears of the UI thread.
C21_NoDuplicateTrackedPath ==
    \A i, k \in 1..Len(tracked_files) :
        i # k => tracked_files[i] # tracked_files[k]

-----------------------------------------------------------------------------
(* Persistence, checked under SpecPersist and SpecRuleSet *)

\* C22 (serialization round trip): a Counter, a List or a Batch rule that
\* has not advanced since its construction or reset, with any start_value,
\* increment, step, max_value and values, comes back from
\* from_dict(to_dict(rule)) as a rule whose next 10 get_value results are
\* those of the original.
C22_RoundTripValues ==
    [][(save_and_load_settings /\ rule = reset(rule)) =>
         ValueSeq(rule', RoundTripCalls) = ValueSeq(rule, RoundTripCalls)]_vars

\* a counter with step 3 and a maximum, not advanced, has been written and
\* read back, and its next ten values wrap past the maximum
C22_Witness ==
    /\ last_op = "load_settings"
    /\ rule = CounterRule(TagC, 1, 1, 3, <<2>>)
    /\ ValueSeq(rule, RoundTripCalls)[4] = <<"2">>
    /\ ValueSeq(rule, RoundTripCalls)[7] = <<"1">>

\* C23 (batch progress survives persistence): a Batch rule in any state it
\* can reach by increment_batch calls and edits comes back from
\* from_dict(to_dict(rule)) with the same current_value and batch_count,
\* and after any further equal number of increment_batch calls the two
\* rules return equal values.
C23_BatchProgressPersists ==
    [][(save_and_load_settings /\ rule.type = "batch") =>
         /\ rule'.current_value = rule.current_value
         /\ rule'.batch_count = rule.batch_count
         /\ \A n \in 0..MaxCalls :
                get_value(AfterBatches(rule', n)).value =
                    get_value(AfterBatches(rule, n)).value]_vars

\* a Batch rule with step 2 that was advanced an odd number of times, away
\* from its start value, has been written and read back
C23_Witness ==
    /\ last_op = "load_settings"
    /\ rule.type = "batch"
    /\ rule.step = 2
    /\ rule.batch_count = 3
    /\ rule.current_value # rule.start_value

\* the dictionary has a known type and the fields every version wrote
HasRequiredFields(data) ==
    /\ data.type \in {"counter", "list", "batch"}
    /\ "tag_name" \in DOMAIN data
    /\ IF data.type = "list" THEN "values" \in DOMAIN data
       ELSE {"start_value", "increment"} \subseteq DOMAIN data

\* C24 (backward-compatible loading): when a settings file whose rule
\* snapshots lack only optional fields is loaded, the load succeeds, and a
\* snapshot without step gives step 1, one without max_value no maximum,
\* and a batch snapshot without current_value / batch_count gives
\* current_value = start_value and batch_count = 0.
C24_BackwardCompatibleLoad ==
    [][\A f \in SettingsFiles :
         (/\ import_settings(f)
          /\ \A k \in 1..Len(f.rules) : HasRequiredFields(f.rules[k])) =>
             /\ status'.kind = "imported"
             /\ Len(rules') = Len(f.rules)
             /\ \A k \in 1..Len(f.rules) :
                    LET data == f.rules[k] IN
                    /\ rules'[k].type = data.type
                    /\ ("step" \notin DOMAIN data) => rules'[k].step = 1
                    /\ (data.type # "list" /\ "max_value" \notin DOMAIN data)
                           => rules'[k].max_value = None
                    /\ (data.type = "batch"
                           /\ "current_value" \notin DOMAIN data)
                           => rules'[k].current_value = data.start_value
                    /\ (data.type = "batch"
                           /\ "batch_count" \notin DOMAIN data)
                           => rules'[k].batch_count = 0]_vars

\* the settings file of the earlier version has been loaded: three rules,
\* the batch rule at its start value 2 with step 1
C24_Witness ==
    /\ status.kind = "imported"
    /\ naming_pattern = OldSettingsFile.naming_pattern
    /\ Len(rules) = 3
    /\ rules[1] = CounterRule(TagC, 1, 2, 1, None)
    /\ rules[2] = ListRule(TagL, <<<<"x">>, <<"y">>>>, 1)
    /\ rules[3] = BatchRule(TagB, 2, 1, 1, None)

-----------------------------------------------------------------------------
(* The REST interface, checked under Spec *)

\* preview_name + file_ext of the tracked file at position i
GeneratedFullName(i) ==
    generate_filename_preview(rules, naming_pattern, i - 1).name
        \o splitext(tracked_files[i])[2]

\* the state the listing has to give the tracked file at position i
ExpectedState(i) ==
    IF \E j \in 1..Len(tracked_files) :
           j # i /\ GeneratedFullName(j) = GeneratedFullName(i)
    THEN "duplicate"
    ELSE IF dest_folder = "dir" /\ GeneratedFullName(i) \in DOMAIN dest
         THEN "exists" ELSE "normal"

\* the response of GET /api/tracking?count=n lists the last n tracked
\* files, each with its generated full name and its state
ListingClassifies(n) ==
    LET files == api_tracking_files(n).files
        first == Len(tracked_files) - Len(files) + 1
    IN  /\ Len(files) = IF Len(tracked_files) > n THEN n
                        ELSE Len(tracked_files)
        /\ \A k \in 1..Len(files) :
               /\ files[k].original_path = tracked_files[first + k - 1]
               /\ files[k].new_name = GeneratedFullName(first + k - 1)
               /\ files[k].state = ExpectedState(first + k - 1)

\* C25 (tracked-file introspection): GET /api/tracking gives each file it
\* returns exactly one state, duplicate if and only if another tracked
\* file has the same generated full name, otherwise exists if and only if
\* that name is in the destination, otherwise normal; and serving the
\* request changes neither the tracked list nor any rule.
C25_IntrospectionReadOnly ==
    /\ [](\A n \in 1..MaxFiles : ListingClassifies(n))
    /\ [][(\E n \in 1..MaxFiles : api_tracking_get(n)) =>
            (tracked_files' = tracked_files /\ rules' = rules)]_vars

\* three files are listed: two whose generated names collide, and a third
\* whose name is already in the destination
C25_Witness ==
    /\ Len(tracked_files) = 3
    /\ api_tracking_files(3).files[1].state = "duplicate"
    /\ api_tracking_files(3).files[2].state = "duplicate"
    /\ api_tracking_files(3).files[3].state = "exists"
    /\ api_tracking_files(1).files[1].state = "exists"

-----------------------------------------------------------------------------
(* Expansion of one file name, checked under Spec *)

\* the calls of one generate_filename run that went to rule j
CallsTo(calls, j) == {c \in 1..Len(calls) : calls[c].index = j}

\* the pattern with every placeholder of a called rule replaced, in one
\* pass from left to right, by the value that rule's call returned
RECURSIVE SubstituteAll(_, _, _)
SubstituteAll(s, rs, calls) ==
    IF s = <<>> THEN <<>>
    ELSE LET M == {c \in 1..Len(calls) :
                      startswith(s, Tag(rs[calls[c].index].tag_name))}
         IN  IF M = {} THEN <<Head(s)>> \o SubstituteAll(Tail(s), rs, calls)
             ELSE LET c == CHOOSE c \in M : TRUE
                      tag == Tag(rs[calls[c].index].tag_name)
                  IN  calls[c].value
                          \o SubstituteAll(SubSeq(s, Len(tag) + 1, Len(s)),
                                           rs, calls)

\* C26 (one value per file): when generate_filename names a file, every
\* rule whose {tag} occurs in the pattern is called exactly once, however
\* often the tag occurs, and is afterwards as after one get_value call; and
\* every occurrence of the tag is replaced by the value of that one call
\* (compared where no returned value is itself a placeholder).
C26_OneValuePerFile ==
    [][Len(commit_log') = Len(commit_log) + 1 =>
         LET e == commit_log'[Len(commit_log')] IN
         /\ \A j \in 1..Len(rules) :
                Contains(naming_pattern, Tag(rules[j].tag_name)) =>
                    /\ Cardinality(CallsTo(e.calls, j)) = 1
                    /\ rules'[j] = get_value(rules[j]).rule
                    /\ \A c \in CallsTo(e.calls, j) :
                           e.calls[c].value = get_value(rules[j]).value
         /\ (\A c \in 1..Len(e.calls) : ~Contains(e.calls[c].value, <<"{">>))
                => e.name = SubstituteAll(naming_pattern, rules, e.calls)]_vars

\* the third file of a pass with the pattern {c}{c}{m} has been named 33{m}
\* by a single call to the counter, whose step is 2
C26_Witness ==
    /\ InPass
    /\ naming_pattern = Tag(TagC) \o Tag(TagC) \o Tag(<<"m">>)
    /\ Len(commit_log) = 3
    /\ commit_log[3].name = <<"3", "3", "{", "m", "}">>
    /\ Len(commit_log[3].calls) = 1
    /\ rules[1].operation_count = 3

-----------------------------------------------------------------------------
(* The rules panel, checked under SpecRuleSet *)

\* C27 (a rejected rename leaves the rules intact): update_rule_tag(index,
\* new_tag) with a blank new_tag, or with one that a different rule
\* already carries, changes no field of any rule; with a new_tag no other
\* rule carries it changes the tag_name of the rule at index and nothing
\* else.
C27_RejectedRenameIntact ==
    [][\A i \in 1..MaxRules : \A t \in TypedTags :
         update_rule_tag(i, t) =>
             IF \/ strip(t) = <<>>
                \/ \E k \in 1..Len(rules) : k # i /\ rules[k].tag_name = t
             THEN rules' = rules
             ELSE rules' = [rules EXCEPT ![i].tag_name = t]]_vars

\* the first rule has been renamed to "c", and a rename to a tag that
\* another rule carries has been rejected
C27_Witness ==
    /\ status.kind = "tag_exists"
    /\ Len(rules) = 2
    /\ rules[1].tag_name = TagC
    /\ rules[2].tag_name = TagCounter

-----------------------------------------------------------------------------
(* Confirmations of a commit, checked under Spec *)

\* the naming pattern has a placeholder {tag} whose tag no rule carries
HasUnruledTag ==
    \E i, k \in 1..Len(naming_pattern) :
        /\ i + 1 < k
        /\ naming_pattern[i] = "{"
        /\ naming_pattern[k] = "}"
        /\ \A m \in (i + 1)..(k - 1) : naming_pattern[m] \notin {"{", "}"}
        /\ \A j \in 1..Len(rules) :
               rules[j].tag_name # SubSeq(naming_pattern, i + 1, k - 1)

\* the call on top of the stack waits in the "Missing Rules Warning" dialog
AwaitsConfirmation == stack # <<>> /\ Top.pc = "askyesno"

\* C28 (missing-tag confirmation gates the commit): with a placeholder
\* that has no rule in the pattern, a commit request that passes the guards
\* only opens the yes/no dialog; the collision dialog is opened and a pass
\* begun (rules reset, files copied) only by a call that got the answer
\* yes; and the answer no ends the call with rules, tracked list and
\* destination unchanged.
C28_MissingTagConfirmation ==
    [][HasUnruledTag =>
         /\ (CommitRequest /\ commit_guard(tracked_files, dest_folder) = "ok")
                => /\ Len(stack') = Len(stack) + 1
                   /\ stack'[Len(stack')].pc = "askyesno"
                   /\ rules' = rules /\ dest' = dest /\ passes' = passes
                   /\ tracked_files' = tracked_files
         /\ OpensConflictDialog => answer_askyesno(TRUE)
         /\ passes' = passes + 1
                => \/ answer_askyesno(TRUE)
                   \/ stack # <<>> /\ Top.pc = "conflict_dialog"
         /\ dest' # dest => InPass
         /\ answer_askyesno(FALSE)
                => /\ stack' = Base
                   /\ rules' = rules /\ dest' = dest /\ passes' = passes
                   /\ tracked_files' = tracked_files]_vars

\* after one confirmed pass, two new files are tracked and a second commit
\* request waits in the yes/no dialog
C28_Witness ==
    /\ HasUnruledTag
    /\ AwaitsConfirmation
    /\ Len(tracked_files) = 2
    /\ passes = 1
    /\ pass_start.done

-----------------------------------------------------------------------------
(* Collision policies, checked under Spec *)

\* this step of a pass is a call of shutil.copy2 that returned
CopyDone ==
    /\ InPass
    /\ Len(stack') = Len(stack)
    /\ stack'[Len(stack')].copied_count = Top.copied_count + 1

\* C29 (only overwrite replaces a destination entry): in a commit pass the
\* copy goes onto a destination name that already exists, whether it was
\* there before the pass or was written earlier in it, only when the user
\* chose overwrite in the collision dialog of that commit.
C29_OnlyOverwriteReplaces ==
    [][(CopyDone /\ latest_rename_info'[2] \in DOMAIN dest) =>
         Top.existing_files_action = "overwrite"]_vars

\* the pass has reached a tracked file that is no longer on disk
ReachesVanishedFile ==
    /\ InPass
    /\ Top.i < Len(tracked_files)
    /\ tracked_files[Top.i + 1] \notin disk

\* C30 (a vanished file is skipped silently): when the pass reaches a
\* tracked file that no longer exists, the step copies nothing, changes
\* neither count, no rule and no status, and the pass goes on with the next
\* file; when the pass completes, the files copied and skipped are exactly
\* the tracked files that exist, and the tracked list is cleared.
C30_VanishedFileSkipped ==
    [][/\ (ReachesVanishedFile /\ \E ok \in BOOLEAN : commit_step(ok)) =>
            /\ Len(stack') = Len(stack)
            /\ stack'[Len(stack')].pc = "copying"
            /\ stack'[Len(stack')].i = Top.i + 1
            /\ stack'[Len(stack')].copied_count = Top.copied_count
            /\ stack'[Len(stack')].skipped_count = Top.skipped_count
            /\ dest' = dest
            /\ rules' = rules
            /\ status' = status
            /\ latest_rename_info' = latest_rename_info
       /\ PassCompletes =>
            /\ status'.kind \in {"copied", "copied_skipped"}
            /\ status'.copied + status'.skipped =
                   Cardinality({k \in 1..Len(tracked_files) :
                                   tracked_files[k] \in disk})
            /\ tracked_files' = <<>>]_vars

\* a pass over three tracked files, one of which had vanished, has
\* completed: two files copied, none skipped, the Batch rule advanced, the
\* list cleared
C30_Witness ==
    /\ passes = 1
    /\ pass_start.done
    /\ stack = <<>>
    /\ tracked_files = <<>>
    /\ Cardinality(disk) = Cardinality(Paths) - 1
    /\ status = Status("copied", 2, 0)
    /\ rules[1].type = "batch"
    /\ rules[1].batch_count = 1

-----------------------------------------------------------------------------
(* Batch arithmetic and value ranges, checked under SpecRule *)

\* C31 (batch advance arithmetic): increment_batch raises batch_count by 1
\* and changes current_value only when the new batch_count is a multiple
\* of step, then adding increment and going back to start_value when
\* max_value is set and exceeded; a Batch rule without max_value that has
\* seen k increment_batch calls since construction holds
\* start_value + increment * floor(k / step).
C31_BatchAdvanceArithmetic ==
    /\ []((rule.type = "batch" /\ rule.max_value = None) =>
             rule.current_value =
                 rule.start_value
                     + rule.increment * (rule.batch_count \div rule.step))
    /\ [][last_op' = "increment_batch" =>
            LET sum == rule.current_value + rule.increment IN
            /\ rule'.batch_count = rule.batch_count + 1
            /\ rule'.current_value =
                   IF (rule.batch_count + 1) % rule.step # 0
                   THEN rule.current_value
                   ELSE IF rule.max_value # None /\ sum > rule.max_value[1]
                        THEN rule.start_value
                        ELSE sum]_vars

\* a Batch rule with step 2 and increment 3, without maximum, after five
\* increment_batch calls: it has advanced twice
C31_Witness ==
    /\ last_op = "increment_batch"
    /\ rule.type = "batch"
    /\ rule.step = 2
    /\ rule.increment = 3
    /\ rule.max_value = None
    /\ rule.batch_count = 5
    /\ rule.current_value = rule.start_value + 6

-----------------------------------------------------------------------------
(* Rule state across commits, checked under Spec *)

\* C32 (every pass starts from reset rules): the step that begins a pass
\* resets every Counter and List rule and leaves every Batch rule as it
\* was; so in every pass, first or later, the m-th value a Counter or List
\* rule returns is the m-th value of that rule counted from its reset
\* state, and the rule is where m calls from reset leave it: nothing of an
\* earlier commit is left in it.
C32_PassStartsFromReset ==
    /\ [](InPass =>
            \A j \in 1..Len(rules) :
                rules[j].type \in {"counter", "list"} =>
                    LET K == {k \in 1..Len(commit_log) :
                                 CallsTo(commit_log[k].calls, j) # {}}
                        n == Cardinality(K)
                    IN  /\ rules[j] = IF n = 0 THEN reset(rules[j])
                                      ELSE Replay(reset(rules[j]), n).rule
                        /\ \A k \in K : \A c \in CallsTo(commit_log[k].calls, j) :
                               commit_log[k].calls[c].value =
                                   Replay(reset(rules[j]),
                                          Cardinality({m \in K : m <= k})).value)
    /\ [][passes' = passes + 1 =>
            /\ Len(rules') = Len(rules)
            /\ \A j \in 1..Len(rules) :
                   IF rules[j].type = "batch" THEN rules'[j] = rules[j]
                   ELSE /\ rules'[j].operation_count = 0
                        /\ rules'[j].type = "counter" =>
                               rules'[j].current_value = rules[j].start_value
                        /\ rules'[j].type = "list" =>
                               rules'[j].current_index = 0]_vars

\* the second commit with the pattern file_{counter} has named its first
\* two files file_1 and file_2 again, over the names of the first commit
C32_Witness ==
    /\ passes = 2
    /\ InPass
    /\ naming_pattern = DefaultPattern
    /\ Top.existing_files_action = "overwrite"
    /\ Len(commit_log) = 2
    /\ commit_log[1].name = <<"f", "i", "l", "e", "_", "1">>
    /\ commit_log[2].name = <<"f", "i", "l", "e", "_", "2">>
    /\ dest[<<"f", "i", "l", "e", "_", "1", ".", "j">>] = "new"

\* ---------------------------------------------------------------------
\* Settings that fail to load, checked under SpecRuleSet
\* ---------------------------------------------------------------------

\* C33: when an import (or load) of settings raises on a corrupt rule
\* snapshot, the failure is reported as a status and the configuration is
\* not left partially loaded: either the rule set, the pattern and the
\* destination are all as before the import, or they are all the defaults
\* of a new application (no rules, pattern file_{counter}, no destination).
C33_FailedLoadNotPartial ==
    [][\A f \in SettingsFiles :
          (import_settings(f) /\ LoadRules(f.rules).raised) =>
              /\ status'.kind = "import_failed"
              /\ \/ /\ rules' = rules
                    /\ naming_pattern' = naming_pattern
                    /\ dest_folder' = dest_folder
                 \/ /\ rules' = <<>>
                    /\ naming_pattern' = DefaultPattern
                    /\ dest_folder' = ""]_vars

\* ---------------------------------------------------------------------
\* Previews and commits of any pass, checked under Spec
\* ---------------------------------------------------------------------

\* C34: in every pass, first or later, the base name the commit generates
\* for the tracked file at index i equals the name
\* generate_filename_preview returned for index i when the pass began,
\* also when an earlier file of the list has vanished from disk or is
\* skipped under the ignore policy.  Stated for rule sets none of whose
\* list values holds a placeholder (the case of C1 is left out).
C34_PreviewCommitEquivalenceAnyPass ==
    (/\ InPass
     /\ \A j \in 1..Len(rules) :
            rules[j].type = "list" =>
                \A v \in 1..Len(rules[j].values) :
                    ~Contains(rules[j].values[v], <<"{">>)) =>
        \A k \in 1..Len(commit_log) :
            commit_log[k].i < Len(pass_start.previews) =>
                commit_log[k].name = pass_start.previews[commit_log[k].i + 1]

\* C35: in a commit pass every rule whose tag is in the naming pattern is
\* called, and advanced, exactly once for each tracked file that exists
\* on disk when the loop reaches it (a file skipped under the ignore
\* policy included) and not at all for a vanished file; so during the pass
\* and when it completes the operation_count of such a Counter is the
\* number of files the loop found on disk.
C35_OneAdvancePerExistingFile ==
    /\ [][(\E ok \in BOOLEAN : commit_step(ok)) =>
            IF tracked_files[Top.i + 1] \in disk
            THEN /\ Len(commit_log') = Len(commit_log) + 1
                 /\ \A j \in 1..Len(rules) :
                        Contains(naming_pattern, Tag(rules[j].tag_name)) =>
                            /\ Cardinality(CallsTo(
                                   commit_log'[Len(commit_log')].calls, j)) = 1
                            /\ rules'[j] = get_value(rules[j]).rule
                            /\ rules[j].type = "counter" =>
                                   rules'[j].operation_count =
                                       rules[j].operation_count + 1
            ELSE rules' = rules /\ commit_log' = commit_log]_vars
    /\ [](InPass =>
            \A j \in 1..Len(rules) :
                (/\ rules[j].type = "counter"
                 /\ Contains(naming_pattern, Tag(rules[j].tag_name))) =>
                    rules[j].operation_count = Len(commit_log))
    /\ [][PassCompletes =>
            \A j \in 1..Len(rules) :
                (/\ rules[j].type = "counter"
                 /\ Contains(naming_pattern, Tag(rules[j].tag_name))) =>
                    rules'[j].operation_count = Len(commit_log)]_vars

\* the loop has gone through three tracked files: the first had vanished,
\* the second was skipped under the ignore policy, the third was copied,
\* and the counter of the pattern has been advanced twice
C35_Witness ==
    /\ InPass
    /\ naming_pattern = DefaultPattern
    /\ Len(tracked_files) = 3
    /\ tracked_files[1] \notin disk
    /\ Top.i = 3
    /\ Top.existing_files_action = "ignore"
    /\ Top.skipped_count = 1
    /\ Top.copied_count = 1
    /\ Len(commit_log) = 2
    /\ rules[1].operation_count = 2

\* C36 (count conservation): at every point of a commit pass the files
\* copied, the files skipped and the files the loop passed without
\* generating a name (the vanished ones) add up to the number of files the
\* loop has gone through, so that a pass completing over n tracked files
\* reports copied + skipped + vanished = n; copied_count grows by one
\* exactly in the steps that invoke the copy; and skipped_count is
\* non-zero only under the ignore policy.
C36_CountConservation ==
    /\ [](InPass =>
            LET vanished == Cardinality({i \in 0..(Top.i - 1) :
                                \A k \in 1..Len(commit_log) : commit_log[k].i # i})
            IN  /\ Top.copied_count + Top.skipped_count + vanished = Top.i
                /\ Top.skipped_count > 0 => Top.existing_files_action = "ignore")
    /\ [][commit_step(TRUE) =>
            LET file_path == tracked_files[Top.i + 1]
                full_name == commit_log'[Len(commit_log')].name
                                 \o splitext(file_path)[2]
                copies == /\ file_path \in disk
                          /\ ~(/\ full_name \in DOMAIN dest
                               /\ Top.existing_files_action = "ignore")
            IN  stack'[Len(stack')].copied_count =
                    Top.copied_count + (IF copies THEN 1 ELSE 0)]_vars
    /\ [][PassCompletes =>
            /\ Top.i = Len(tracked_files)
            /\ status'.copied = Top.copied_count
            /\ status'.skipped = Top.skipped_count
            /\ status'.kind = IF Top.skipped_count > 0 THEN "copied_skipped"
                              ELSE "copied"]_vars

\* the loop has gone through all of three tracked files: the first was
\* skipped under the ignore policy, the second had vanished and the third
\* was copied
C36_Witness ==
    /\ InPass
    /\ Len(tracked_files) = 3
    /\ Top.i = 3
    /\ tracked_files[2] \notin disk
    /\ Len(commit_log) = 2
    /\ commit_log[1].i = 0
    /\ commit_log[2].i = 2
    /\ Top.copied_count = 1
    /\ Top.skipped_count = 1

\* ---------------------------------------------------------------------
\* Range of bounded counters, checked under SpecRule
\* ---------------------------------------------------------------------

\* C37 (bounded counter values): for a Counter or Batch rule with
\* max_value set, start_value <= max_value and increment >= 0, after any
\* number of get_value, increment_batch and reset calls current_value lies
\* in start_value..max_value, and so does every value get_value returned.
C37_BoundedCounterValues ==
    (/\ rule.type \in {"counter", "batch"}
     /\ rule.max_value # None
     /\ rule.start_value <= rule.max_value[1]
     /\ rule.increment >= 0) =>
        /\ rule.current_value \in rule.start_value..rule.max_value[1]
        /\ \A k \in 1..Len(outputs) :
               \E v \in rule.start_value..rule.max_value[1] : outputs[k] = str(v)

\* a counter from 0 to 2 has returned 0, 1, 2 and, after the wrap, 0 and 1
C37_Witness ==
    /\ rule.type = "counter"
    /\ rule.max_value = <<2>>
    /\ rule.start_value = 0
    /\ rule.increment = 1
    /\ outputs = <<<<"0">>, <<"1">>, <<"2">>, <<"0">>, <<"1">>>>
    /\ rule.current_value = 2

\* ---------------------------------------------------------------------
\* The two duplicate detectors, checked under Spec
\* ---------------------------------------------------------------------

C39_FailedCommitKeepsBatch ==
    /\ [](InPass =>
            \A j \in 1..Len(rules) :
                rules[j].type = "batch" =>
                    /\ rules[j] = pass_start.rules[j]
                    /\ \A k \in 1..Len(commit_log) :
                           \A c \in CallsTo(commit_log[k].calls, j) :
                               commit_log[k].calls[c].value =
                                   str(pass_start.rules[j].current_value))
    /\ [][commit_step(FALSE) =>
            /\ status'.kind = "failed"
            /\ ~InPass'
            /\ ~pass_start'.done
            /\ Len(rules') = Len(rules)
            /\ \A j \in 1..Len(rules) :
                   rules[j].type = "batch" =>
                       /\ rules'[j] = pass_start.rules[j]
                       /\ LET retry == generate_filename(ResetAll(rules'),
                                                         naming_pattern)
                          IN  \A c \in CallsTo(retry.calls, j) :
                                  retry.calls[c].value =
                                      str(pass_start.rules[j].current_value)]_vars

\* the first commit completed and advanced the batch rule of the pattern to
\* 1; the second commit stopped on a copy error and the rule is still at 1
C39_Witness ==
    /\ passes = 2
    /\ stack = <<>>
    /\ status.kind = "failed"
    /\ tracked_files # <<>>
    /\ rules[1].type = "batch"
    /\ Contains(naming_pattern, Tag(rules[1].tag_name))
    /\ rules[1].batch_count = 1
    /\ rules[1].current_value = 1

====
